---- MODULE Spec2Model ----
(***************************************************************************)
(* Model of ezdxf.addons.geo (src/src/ezdxf/addons/geo.py): the            *)
(* __geo_interface__ proxy, its parser, its rebuild, the leaf iteration,   *)
(* the in-place coordinate transform and the mapping of DXF entities.      *)
(*                                                                         *)
(* Python values are tagged records [k, v]: k is the Python kind and v the *)
(* payload.  Lists and tuples are both kind "seq".  A dict is a function   *)
(* over KEYS whose absent keys hold Absent.  A call returns [err, val]:    *)
(* err is "none" or the name of the exception the call raises.             *)
(***************************************************************************)
EXTENDS Integers, Sequences, FiniteSets, TLC

\* ------------------------------------------------------------ Python values

V(k, v) == [k |-> k, v |-> v]
None_ == V("none", 0)
Absent == V("absent", 0)
Num(n) == V("num", n)
Str(s) == V("str", s)
Bool(b) == V("bool", b)
List(s) == V("seq", s)
Dict(d) == V("dict", d)
\* ezdxf.math.Vector: always three components
Vector3(x, y, z) == V("vec", <<x, y, z>>)

R(err, val) == [err |-> err, val |-> val]
Ok(val) == R("none", val)
IsOk(r) == r.err = "none"

Min(S) == CHOOSE m \in S : \A n \in S : m <= n

\* the result of [F(x) for x in s]: the first exception raised ends it
MapR(F(_), s) ==
    LET rs == [i \in 1..Len(s) |-> F(s[i])]
        bad == {i \in 1..Len(s) : rs[i].err # "none"}
    IN  IF bad = {} THEN Ok(List([i \in 1..Len(s) |-> rs[i].val]))
        ELSE R(rs[Min(bad)].err, None_)

\* the elements of s after [F(x) for x in s], F changing x in place: the
\* elements up to the first exception hold what F left, the rest are untouched
MapInPlace(F(_), s) ==
    LET rs == [i \in 1..Len(s) |-> F(s[i])]
        bad == {i \in 1..Len(s) : rs[i].err # "none"}
        stop == IF bad = {} THEN Len(s) ELSE Min(bad)
    IN  R(IF bad = {} THEN "none" ELSE rs[stop].err,
          List([i \in 1..Len(s) |-> IF i <= stop THEN rs[i].val ELSE s[i]]))

TYPE == "type"
COORDINATES == "coordinates"
POINT == "Point"
MULTI_POINT == "MultiPoint"
LINE_STRING == "LineString"
MULTI_LINE_STRING == "MultiLineString"
POLYGON == "Polygon"
MULTI_POLYGON == "MultiPolygon"
GEOMETRY_COLLECTION == "GeometryCollection"
GEOMETRIES == "geometries"
GEOMETRY == "geometry"
FEATURES == "features"
FEATURE == "Feature"
FEATURE_COLLECTION == "FeatureCollection"

\* the keys a dict of this model can hold: the GeoJSON members, one foreign
\* member ("properties") and VKEY, the key of line 321 (a Vector used as key)
PROPERTIES == "properties"
VKEY == "vkey"
KEYS == {TYPE, COORDINATES, FEATURES, GEOMETRIES, GEOMETRY, PROPERTIES, VKEY}

EmptyDict == Dict([key \in KEYS |-> Absent])
\* d[key] = val
SetItem(d, key, val) == Dict([d.v EXCEPT ![key] = val])
\* key in d
HasKey(d, key) == d.v[key] # Absent
\* d.get(key)
Get(d, key) == IF HasKey(d, key) THEN d.v[key] ELSE None_
\* obj[key] for a str key
GetItem(obj, key) ==
    IF obj.k = "dict"
    THEN IF HasKey(obj, key) THEN Ok(obj.v[key]) ELSE R("KeyError", None_)
    ELSE R("TypeError", None_)

\* bool(obj)
Truthy(obj) ==
    CASE obj.k = "none" -> FALSE
      [] obj.k = "seq" -> Len(obj.v) # 0
      [] obj.k = "dict" -> \E key \in KEYS : HasKey(obj, key)
      [] obj.k = "num" -> obj.v # 0
      [] obj.k = "str" -> obj.v # ""
      [] obj.k = "bool" -> obj.v
      [] obj.k = "vec" -> obj.v # <<0, 0, 0>>
      [] OTHER -> FALSE

\* len(obj)
PyLen(obj) ==
    CASE obj.k = "seq" -> Ok(Num(Len(obj.v)))
      [] obj.k = "vec" -> Ok(Num(3))
      [] obj.k = "dict" -> Ok(Num(Cardinality({key \in KEYS : HasKey(obj, key)})))
      [] OTHER -> R("TypeError", None_)

\* Vector(data): a Vector, or a sequence of two or three numbers
Vector(data) ==
    CASE data.k = "vec" -> Ok(data)
      [] data.k = "seq" ->
            IF Len(data.v) \notin {2, 3} THEN R("ValueError", None_)
            ELSE IF \E i \in 1..Len(data.v) : data.v[i].k # "num"
            THEN R("TypeError", None_)
            ELSE Ok(Vector3(data.v[1].v, data.v[2].v,
                            IF Len(data.v) = 3 THEN data.v[3].v ELSE 0))
      [] OTHER -> R("TypeError", None_)

\* Vector.list(items)
Vector_list(items) ==
    CASE items.k = "seq" -> MapR(Vector, items.v)
      [] items.k = "vec" -> R("TypeError", None_)
      [] OTHER -> R("TypeError", None_)

\* a.isclose(b), on the integer grid of the model
isclose(a, b) == a = b

\* ------------------------------------------------------------------ parse

\* a variant of the test of lines 283 and 291 that asks for the key only and
\* lets an empty member list pass
has_members_is_not_none(members) == members # None_

\* line 283, line 291: "if features:", "if geometries:"
has_members(members) == Truthy(members)

\* line 299: "if GEOMETRY in geo_mapping:"
has_geometry_key(geo_mapping) == HasKey(geo_mapping, GEOMETRY)

\* line 305: "elif type in {POINT, ...}" tests the builtin "type", which is
\* no member of a set of strings, whatever the mapping's type_ is
builtin_type_in_geometry_tags == FALSE

_is_coordinate_sequence(coordinates) ==
    IF coordinates.k \notin {"seq", "str"} THEN R("ValueError", None_)
    ELSE IF coordinates.k = "str" THEN R("TypeError", None_)
    ELSE IF Len(coordinates.v) = 0 THEN R("ValueError", None_)
    ELSE LET first_item == coordinates.v[1]
             n == PyLen(first_item)
         IN  IF ~IsOk(n) THEN R(n.err, None_)
             ELSE IF n.val.v = 0 THEN R("ValueError", None_)
             ELSE CASE first_item.k = "seq" ->
                          Ok(Bool(first_item.v[1].k = "num"))
                    [] first_item.k = "vec" -> Ok(Bool(TRUE))
                    [] OTHER -> R("KeyError", None_)

_parse_polygon(coordinates) ==
    LET flat == _is_coordinate_sequence(coordinates)
    IN  IF ~IsOk(flat) THEN R(flat.err, None_)
        ELSE LET exterior == IF flat.val.v THEN coordinates
                             ELSE coordinates.v[1]
                 holes == IF flat.val.v THEN List(<<>>)
                          ELSE List(Tail(coordinates.v))
                 e == Vector_list(exterior)
                 h == MapR(Vector_list, holes.v)
             IN  IF ~IsOk(e) THEN R(e.err, None_)
                 ELSE IF ~IsOk(h) THEN R(h.err, None_)
                 ELSE Ok(List(<<e.val, h.val>>))

\* lines 307-321, the branch of the six geometry tags
parse_coordinates(geo_mapping, type_) ==
    LET coordinates == Get(geo_mapping, COORDINATES)
        conv == CASE type_ = Str(POINT) -> Vector(coordinates)
                  [] type_ \in {Str(LINE_STRING), Str(MULTI_POINT)} ->
                        Vector_list(coordinates)
                  [] type_ = Str(POLYGON) -> _parse_polygon(coordinates)
                  [] type_ = Str(MULTI_LINE_STRING) ->
                        IF coordinates.k = "seq"
                        THEN MapR(Vector_list, coordinates.v)
                        ELSE R("TypeError", None_)
                  [] type_ = Str(MULTI_POLYGON) ->
                        IF coordinates.k = "seq"
                        THEN MapR(_parse_polygon, coordinates.v)
                        ELSE R("TypeError", None_)
                  [] OTHER -> Ok(coordinates)
    IN  IF coordinates = None_ THEN R("ValueError", geo_mapping)
        ELSE IF ~IsOk(conv) THEN R(conv.err, geo_mapping)
        \* line 321: geo_mapping[coordinates] = coordinates, the converted
        \* value is the key: a list is unhashable, a Vector is a new key
        ELSE IF conv.val.k = "vec" THEN Ok(SetItem(geo_mapping, VKEY, conv.val))
        ELSE R("TypeError", geo_mapping)

\* parse(geo_mapping) changes geo_mapping in place and returns it: val is the
\* mapping as the call leaves it, also when it raises
RECURSIVE parse(_)
parse(geo_mapping) ==
    IF geo_mapping.k # "dict" THEN R("AttributeError", geo_mapping)
    ELSE
    LET type_ == Get(geo_mapping, TYPE)
    IN  IF type_ = None_ THEN R("ValueError", geo_mapping)
        ELSE IF type_ = Str(FEATURE_COLLECTION) THEN
            LET features == Get(geo_mapping, FEATURES)
            IN  IF has_members(features) THEN
                    IF features.k # "seq" THEN R("TypeError", geo_mapping)
                    ELSE LET r == MapInPlace(parse, features.v)
                         IN  R(r.err, SetItem(geo_mapping, FEATURES, r.val))
                ELSE R("ValueError", geo_mapping)
        ELSE IF type_ = Str(GEOMETRY_COLLECTION) THEN
            LET geometries == Get(geo_mapping, GEOMETRIES)
            IN  IF has_members(geometries) THEN
                    IF geometries.k # "seq" THEN R("TypeError", geo_mapping)
                    ELSE LET r == MapInPlace(parse, geometries.v)
                         IN  R(r.err, SetItem(geo_mapping, GEOMETRIES, r.val))
                ELSE R("ValueError", geo_mapping)
        ELSE IF type_ = Str(FEATURE) THEN
            IF has_geometry_key(geo_mapping) THEN
                LET geometry == Get(geo_mapping, GEOMETRY)
                IN  IF Truthy(geometry)
                    THEN LET r == parse(geometry)
                         IN  R(r.err, SetItem(geo_mapping, GEOMETRY, r.val))
                    ELSE Ok(SetItem(geo_mapping, GEOMETRY, None_))
            ELSE R("ValueError", geo_mapping)
        ELSE IF builtin_type_in_geometry_tags THEN
            parse_coordinates(geo_mapping, type_)
        ELSE R("TypeError", geo_mapping)

\* ---------------------------------------------------------------- _rebuild

\* (v.x, v.y)
xy(v) ==
    IF v.k = "vec" THEN Ok(List(<<Num(v.v[1]), Num(v.v[2])>>))
    ELSE R("AttributeError", None_)

\* [(v.x, v.y) for v in coordinates]
xy_list(coordinates) ==
    IF coordinates.k = "seq" THEN MapR(xy, coordinates.v)
    ELSE R("TypeError", None_)

\* lines 373-379
_rebuild_polygon(coordinates) ==
    IF coordinates.k # "seq" THEN R("TypeError", None_)
    ELSE IF Len(coordinates.v) # 2 THEN R("ValueError", None_)
    ELSE LET extrior == coordinates.v[1]
             holes == coordinates.v[2]
             e == xy_list(extrior)
         IN  IF ~IsOk(e) THEN R(e.err, None_)
             ELSE IF Truthy(holes)
             THEN LET h == IF holes.k = "seq" THEN MapR(xy_list, holes.v)
                           ELSE R("TypeError", None_)
                  IN  IF ~IsOk(h) THEN R(h.err, None_)
                      ELSE Ok(List(<<e.val>> \o h.val.v))
             ELSE e

\* _rebuild(geo_mapping) returns a new mapping: val is the value returned
RECURSIVE _rebuild(_)
_rebuild(geo_mapping) ==
    \* dict(geo_mapping)
    IF geo_mapping.k # "dict" THEN R("TypeError", None_)
    ELSE
    LET geo_interface == geo_mapping
        t == GetItem(geo_interface, TYPE)
        type_ == t.val
        Child(key, F(_)) ==
            LET c == GetItem(geo_interface, key)
                r == F(c.val)
            IN  IF ~IsOk(c) THEN R(c.err, None_)
                ELSE IF ~IsOk(r) THEN R(r.err, None_)
                ELSE Ok(SetItem(geo_interface, key, r.val))
        Members(m) == IF m.k = "seq" THEN MapR(_rebuild, m.v)
                      ELSE R("TypeError", None_)
    IN  IF ~IsOk(t) THEN R(t.err, None_)
        ELSE IF type_ = Str(FEATURE_COLLECTION) THEN Child(FEATURES, Members)
        ELSE IF type_ = Str(GEOMETRY_COLLECTION) THEN Child(GEOMETRIES, Members)
        ELSE IF type_ = Str(FEATURE) THEN Child(GEOMETRY, _rebuild)
        ELSE IF type_ = Str(POINT) THEN Child(COORDINATES, xy)
        ELSE IF type_ \in {Str(LINE_STRING), Str(MULTI_POINT)}
             THEN Child(COORDINATES, xy_list)
        \* line 371: [(v.x, v.y) for v in (line for line in coordinates)]
        ELSE IF type_ = Str(MULTI_LINE_STRING) THEN Child(COORDINATES, xy_list)
        ELSE IF type_ = Str(POLYGON) THEN Child(COORDINATES, _rebuild_polygon)
        ELSE Ok(geo_interface)

\* ----------------------------------------------------- GeoProxy.__iter__

\* _iter(root) of __iter__: val is the sequence of the objects yielded before
\* the generator ends or raises, each with the path of keys that leads to it
RECURSIVE _iter(_, _)
_iter(root, path) ==
    LET t == GetItem(root, TYPE)
        type_ == t.val
        Sub(key) == LET c == GetItem(root, key)
                    IN  IF ~IsOk(c) THEN R(c.err, <<>>)
                        ELSE _iter(c.val, path \o <<key>>)
    IN  IF ~IsOk(t) THEN R(t.err, <<>>)
        ELSE IF type_ = Str(FEATURE_COLLECTION) THEN Sub(FEATURES)
        ELSE IF type_ = Str(GEOMETRY_COLLECTION) THEN Sub(GEOMETRIES)
        ELSE IF type_ = Str(FEATURE) THEN
            LET c == GetItem(root, GEOMETRY)
            IN  IF ~IsOk(c) THEN R(c.err, <<>>)
                ELSE Ok(<<[path |-> path \o <<GEOMETRY>>, node |-> c.val]>>)
        ELSE Ok(<<[path |-> path, node |-> root]>>)

__iter__(_root) == _iter(_root, <<>>)

\* the objects a generator result yields, as a Python list
Yielded(it) == List([i \in 1..Len(it.val) |-> it.val[i].node])

\* --------------------------------------------------- GeoProxy._transform

\* Matrix44.transform(v): the point transform of the matrix with the x-axis
\* ux, the y-axis uy and the origin o
Matrix44_transform(crs, v) ==
    Vector3(v.v[1] * crs.ux[1] + v.v[2] * crs.uy[1] + crs.o[1],
            v.v[1] * crs.ux[2] + v.v[2] * crs.uy[2] + crs.o[2],
            v.v[3] + crs.o[3])

\* Matrix44.ucs_vertex_from_wcs(v)
Matrix44_ucs_vertex_from_wcs(crs, v) == Matrix44_transform(crs, v)

\* func(coords) for the bound method func handed to _transform
call_func(func, coords) ==
    IF func.method = "transform" THEN Matrix44_transform(func.crs, coords)
    ELSE Matrix44_ucs_vertex_from_wcs(func.crs, coords)

RECURSIVE convert(_, _)
convert(coords, func) ==
    IF coords.k = "vec" THEN Ok(call_func(func, coords))
    ELSE IF coords.k = "seq"
    THEN MapR(LAMBDA c : convert(c, func), coords.v)
    ELSE R("TypeError", None_)

\* process(entity): val is entity as the call leaves it
process(entity, func) ==
    LET c == GetItem(entity, COORDINATES)
        r == convert(c.val, func)
    IN  IF ~IsOk(c) THEN R(c.err, entity)
        ELSE IF ~IsOk(r) THEN R(r.err, entity)
        ELSE Ok(SetItem(entity, COORDINATES, r.val))

\* the tree with the object at path replaced by val
RECURSIVE SetAt(_, _, _)
SetAt(tree, path, val) ==
    IF path = <<>> THEN val
    ELSE SetItem(tree, Head(path), SetAt(tree.v[Head(path)], Tail(path), val))

\* "for entity in self.__iter__(): process(entity)" over the yielded objects
RECURSIVE transform_loop(_, _, _)
transform_loop(_root, yielded, func) ==
    IF yielded = <<>> THEN Ok(_root)
    ELSE LET r == process(Head(yielded).node, func)
             next == SetAt(_root, Head(yielded).path, r.val)
         IN  IF ~IsOk(r) THEN R(r.err, next)
             ELSE transform_loop(next, Tail(yielded), func)

\* _transform(func): val is the tree self._root as the call leaves it
_transform(_root, func) ==
    LET it == __iter__(_root)
        r == transform_loop(_root, it.val, func)
    IN  IF ~IsOk(r) THEN r ELSE R(it.err, r.val)

crs_to_wcs(_root, crs) == _transform(_root, [method |-> "transform", crs |-> crs])

wcs_to_crs(_root, crs) ==
    _transform(_root, [method |-> "ucs_vertex_from_wcs", crs |-> crs])

__geo_interface__(_root) == _rebuild(_root)

\* ------------------------------------------------------- entity mappings

\* a DXF entity as this module consumes it: its dxftype, the vertices its
\* accessors deliver (location; start and end; the flattened path; the closed
\* face vertices), the POLYLINE mode, and the names of its DXF attributes
Entity(dxftype, pts, mode) ==
    V("entity", [dxftype |-> dxftype, pts |-> pts, mode |-> mode])

line_string_mapping(points) ==
    SetItem(SetItem(EmptyDict, TYPE, Str(LINE_STRING)), COORDINATES, points)

is_linear_ring(points) == isclose(points.v[1], points.v[Len(points.v)])

\* ezdxf.math.has_clockwise_orientation: the shoelace sum over the edges
RECURSIVE shoelace(_)
shoelace(pts) ==
    IF Len(pts) < 2 THEN 0
    ELSE (pts[2].v[1] - pts[1].v[1]) * (pts[2].v[2] + pts[1].v[2])
         + shoelace(Tail(pts))

has_clockwise_orientation(points) ==
    shoelace(IF isclose(points[1], points[Len(points)]) THEN points
             ELSE Append(points, points[1])) > 0

Reverse(s) == [i \in 1..Len(s) |-> s[Len(s) + 1 - i]]

\* linear_ring with the closing point appended to every ring, closed or not
linear_ring_always_append(points, ccw) ==
    IF Len(points.v) < 3 THEN R("ValueError", None_)
    ELSE LET closed == Append(points.v, points.v[1])
         IN  IF has_clockwise_orientation(closed)
             THEN Ok(List(IF ccw THEN Reverse(closed) ELSE closed))
             ELSE Ok(List(IF ~ccw THEN Reverse(closed) ELSE closed))

\* linear_ring(points, ccw), points a list of Vector
linear_ring(points, ccw) ==
    IF Len(points.v) < 3 THEN R("ValueError", None_)
    ELSE LET closed == IF isclose(points.v[1], points.v[Len(points.v)])
                       THEN points.v ELSE Append(points.v, points.v[1])
         IN  IF has_clockwise_orientation(closed)
             THEN Ok(List(IF ccw THEN Reverse(closed) ELSE closed))
             ELSE Ok(List(IF ~ccw THEN Reverse(closed) ELSE closed))

polygon_mapping(points, holes) ==
    LET pv == Vector_list(points)
        exterior == linear_ring(pv.val, TRUE)
        HoleRing(hole) == LET hv == Vector_list(hole)
                          IN  IF ~IsOk(hv) THEN hv
                              ELSE linear_ring(hv.val, FALSE)
        hs == MapR(HoleRing, holes.v)
        Mapping(rings) ==
            Ok(SetItem(SetItem(EmptyDict, TYPE, Str(POLYGON)), COORDINATES, rings))
    IN  IF ~IsOk(pv) THEN R(pv.err, None_)
        ELSE IF ~IsOk(exterior) THEN R(exterior.err, None_)
        ELSE IF Truthy(holes)
        THEN IF ~IsOk(hs) THEN R(hs.err, None_)
             ELSE Mapping(List(<<exterior.val>> \o hs.val.v))
        ELSE Mapping(exterior.val)

\* a variant of the classification that never looks at force_line_string
_line_string_or_polygon_mapping_unforced(points, force_line_string) ==
    LET len_ == Len(points.v)
    IN  IF len_ < 2 THEN R("ValueError", None_)
        ELSE IF len_ = 2
        THEN Ok(line_string_mapping(points))
        ELSE IF is_linear_ring(points)
        THEN polygon_mapping(points, None_)
        ELSE Ok(line_string_mapping(points))

_line_string_or_polygon_mapping(points, force_line_string) ==
    LET len_ == Len(points.v)
    IN  IF len_ < 2 THEN R("ValueError", None_)
        ELSE IF len_ = 2 \/ force_line_string
        THEN Ok(line_string_mapping(points))
        ELSE IF is_linear_ring(points)
        THEN polygon_mapping(points, None_)
        ELSE Ok(line_string_mapping(points))

\* a variant of the join that takes the type of the first mapping for all
join_multi_first_type(geometries) ==
    LET data == [i \in 1..Len(geometries) |-> geometries[i].v[COORDINATES]]
    IN  IF Len(geometries) = 0 THEN Ok(EmptyDict)
        ELSE Ok(SetItem(SetItem(EmptyDict, TYPE,
                                Str("Multi" \o geometries[1].v[TYPE].v)),
                        COORDINATES, List(data)))

\* a variant of the join that collects the coordinates last entity first
join_multi_last_first(geometries) ==
    LET types == {geometries[i].v[TYPE] : i \in 1..Len(geometries)}
        data == [i \in 1..Len(geometries) |->
                    geometries[Len(geometries) + 1 - i].v[COORDINATES]]
    IN  IF Cardinality(types) > 1 THEN R("TypeError", None_)
        ELSE IF Cardinality(types) = 0 THEN Ok(EmptyDict)
        ELSE Ok(SetItem(SetItem(EmptyDict, TYPE,
                                Str("Multi" \o (CHOOSE t \in types : TRUE).v)),
                        COORDINATES, List(data)))

join_multi_single_type_mappings(geometries) ==
    LET types == {geometries[i].v[TYPE] : i \in 1..Len(geometries)}
        data == [i \in 1..Len(geometries) |-> geometries[i].v[COORDINATES]]
    IN  IF Cardinality(types) > 1 THEN R("TypeError", None_)
        ELSE IF Cardinality(types) = 0 THEN Ok(EmptyDict)
        ELSE Ok(SetItem(SetItem(EmptyDict, TYPE,
                                Str("Multi" \o (CHOOSE t \in types : TRUE).v)),
                        COORDINATES, List(data)))

\* hatch.dxf.<name>: a HATCH entity has the DXF attributes elevation and
\* hatch_style (line 238 writes it); any other name raises DXFAttributeError
HATCH_DXF_ATTRIBS == {"elevation", "hatch_style"}

dxf(entity, name) ==
    IF name \notin HATCH_DXF_ATTRIBS THEN R("DXFAttributeError", None_)
    ELSE IF name = "hatch_style" THEN Ok(Str(entity.v.mode))
    ELSE Ok(Vector3(0, 0, 0))

\* a boundary path of a hatch: its path type flags and the vertices its
\* flattened path delivers
BoundaryPath(flags, pts) == V("path", [flags |-> flags, pts |-> pts])

\* boundary_to_vertices(boundary), lines 446-455
boundary_to_vertices(boundary) ==
    LET vertices == boundary.v.pts.v
    IN  List(IF isclose(vertices[1], vertices[Len(vertices)]) THEN vertices
             ELSE Append(vertices, vertices[1]))

\* the paths of a hatch are named by their index in hatch.paths, which stands
\* for the identity id(p) of the path object; 0 is None
external_path(boundaries) ==
    LET ext == {i \in 1..Len(boundaries) : "external" \in boundaries[i].v.flags}
    IN  IF ext = {} THEN 0 ELSE Min(ext)

Indices(n) == [i \in 1..n |-> i]

outer_most_paths(boundaries) ==
    SelectSeq(Indices(Len(boundaries)),
              LAMBDA i : "outermost" \in boundaries[i].v.flags)

default_paths(boundaries) ==
    SelectSeq(Indices(Len(boundaries)),
              LAMBDA i : boundaries[i].v.flags \cap {"external", "outermost"} = {})

\* filter_external(paths), lines 457-461
filter_external(paths, has_explicit_external, external) ==
    IF ~has_explicit_external THEN SelectSeq(paths, LAMBDA p : p # external)
    ELSE paths

_hatch_as_polygon(hatch, force_line_string) ==
    LET elevation == dxf(hatch, "elevation")
        style0 == dxf(hatch, "hath_style")
        boundaries == hatch.v.pts.v
        count == Len(boundaries)
        has_explicit_external == external_path(boundaries) # 0
        external == IF has_explicit_external THEN external_path(boundaries)
                    ELSE 1
        holes0 == filter_external(outer_most_paths(boundaries),
                                  has_explicit_external, external)
        hatch_style == IF style0.val = Str("outermost") /\ Len(holes0) = 0
                       THEN Str("nested") ELSE style0.val
        holes == IF hatch_style = Str("nested")
                 THEN holes0 \o filter_external(default_paths(boundaries),
                                                has_explicit_external, external)
                 ELSE holes0
        Line(i) == _line_string_or_polygon_mapping(
                       boundary_to_vertices(boundaries[i]), force_line_string)
        geometries == MapR(Line, <<external>> \o holes)
    IN  IF ~IsOk(elevation) THEN R(elevation.err, None_)
        ELSE IF ~IsOk(style0) THEN R(style0.err, None_)
        ELSE IF count = 0 THEN R("ValueError", None_)
        ELSE IF count = 1 \/ style0.val = Str("ignore") THEN Line(external)
        ELSE IF force_line_string
        THEN IF ~IsOk(geometries) THEN R(geometries.err, None_)
             ELSE join_multi_single_type_mappings(geometries.val.v)
        ELSE polygon_mapping(
                 boundary_to_vertices(boundaries[external]),
                 List([i \in 1..Len(holes) |->
                          boundary_to_vertices(boundaries[holes[i]])]))

\* lines 41-44
SUPPORTED_DXF_TYPES ==
    {"POINT", "LINE", "LWPOLYLINE", "POLYLINE", "HATCH",
     "SOLID", "TRACE", "3DFACE", "CIRCLE", "ARC", "ELLIPSE", "SPLINE"}

SUPPORTED_FLATTENING == {"CIRCLE", "ARC", "ELLIPSE", "SPLINE"}
\* a variant of the face types that takes a TEXT entity for a face
SUPPORTED_FACES_and_text == {"SOLID", "TRACE", "3DFACE", "TEXT"}
SUPPORTED_FACES == {"SOLID", "TRACE", "3DFACE"}

mapping(entity, force_line_string) ==
    LET dxftype == entity.v.dxftype
        points == entity.v.pts
    IN  IF dxftype = "POINT"
        THEN Ok(SetItem(SetItem(EmptyDict, TYPE, Str(POINT)),
                        COORDINATES, points.v[1]))
        ELSE IF dxftype = "LINE"
        THEN Ok(line_string_mapping(List(<<points.v[1], points.v[2]>>)))
        ELSE IF dxftype = "POLYLINE"
        THEN IF entity.v.mode \in {"3d", "2d"}
             THEN _line_string_or_polygon_mapping(points, force_line_string)
             ELSE R("TypeError", None_)
        ELSE IF dxftype = "LWPOLYLINE"
        THEN _line_string_or_polygon_mapping(points, force_line_string)
        ELSE IF dxftype \in SUPPORTED_FLATTENING
        THEN _line_string_or_polygon_mapping(points, force_line_string)
        ELSE IF dxftype \in SUPPORTED_FACES
        THEN _line_string_or_polygon_mapping(points, force_line_string)
        ELSE IF dxftype = "HATCH"
        THEN _hatch_as_polygon(entity, force_line_string)
        ELSE R("TypeError", None_)

geometry_collection_mapping(geometries) ==
    SetItem(SetItem(EmptyDict, TYPE, Str(GEOMETRY_COLLECTION)),
            GEOMETRIES, List(geometries))

collection(entities, force_line_string) ==
    LET m == MapR(LAMBDA e : mapping(e, force_line_string), entities.v)
        types == {m.val.v[i].v[TYPE] : i \in 1..Len(m.val.v)}
    IN  IF ~IsOk(m) THEN R(m.err, None_)
        ELSE IF Cardinality(types) > 1
        THEN Ok(geometry_collection_mapping(m.val.v))
        ELSE join_multi_single_type_mappings(m.val.v)

\* ------------------------------------------- GeoProxy.to_dxf_entities

\* point(vertex): a new POINT entity with the location vertex
point(vertex) == Entity("POINT", List(<<vertex>>), "")

\* lwpolyline(vertices): a new LWPOLYLINE with the points appended in the
\* format "xy"
lwpolyline(vertices) ==
    IF vertices.k # "seq" THEN R("TypeError", None_)
    ELSE IF \E i \in 1..Len(vertices.v) : vertices.v[i].k # "vec"
    THEN R("TypeError", None_)
    ELSE Ok(Entity("LWPOLYLINE",
                   List([i \in 1..Len(vertices.v) |->
                            Vector3(vertices.v[i].v[1], vertices.v[i].v[2], 0)]),
                   ""))

\* hatch_(exterior, holes): a new HATCH of the style outermost with the
\* exterior as external path and every hole as outermost path
hatch_(exterior, holes) ==
    IF holes.k # "seq" THEN R("TypeError", None_)
    ELSE Ok(Entity("HATCH",
                   List(<<BoundaryPath({"external"}, exterior)>>
                        \o [i \in 1..Len(holes.v) |->
                               BoundaryPath({"outermost"}, holes.v[i])]),
                   "outermost"))

\* the entities a generator yields that goes through the results rs in turn:
\* the first exception ends it
Chain(rs) ==
    LET bad == {i \in 1..Len(rs) : rs[i].err # "none"}
        stop == IF bad = {} THEN Len(rs) ELSE Min(bad)
        RECURSIVE cat(_)
        cat(i) == IF i > stop THEN <<>> ELSE rs[i].val \o cat(i + 1)
    IN  R(IF bad = {} THEN "none" ELSE rs[stop].err, cat(1))

\* polygon_(exterior, holes): line 229 tests bit 2 for the hatch, line 231
\* bit 1 for the polylines
polygon_(exterior, holes, polygon) ==
    LET h == hatch_(exterior, holes)
        paths == <<exterior>> \o holes.v
        hatches == IF (polygon \div 2) % 2 = 1
                   THEN <<R(h.err, IF IsOk(h) THEN <<h.val>> ELSE <<>>)>>
                   ELSE <<>>
        polylines == IF polygon % 2 = 1
                     THEN IF holes.k # "seq" THEN <<R("TypeError", <<>>)>>
                          ELSE [i \in 1..Len(paths) |->
                                   LET l == lwpolyline(paths[i])
                                   IN  R(l.err, IF IsOk(l) THEN <<l.val>> ELSE <<>>)]
                     ELSE <<>>
    IN  Chain(hatches \o polylines)

\* "exterior, holes = data; yield from polygon_(exterior, holes)"
unpack_polygon(data, polygon) ==
    IF data.k # "seq" THEN R("TypeError", <<>>)
    ELSE IF Len(data.v) # 2 THEN R("ValueError", <<>>)
    ELSE polygon_(data.v[1], data.v[2], polygon)

\* entity(type_, coordinates) of to_dxf_entities: val is the sequence of the
\* entities yielded
entity_(type_, coordinates, polygon) ==
    LET One(r) == R(r.err, IF IsOk(r) THEN <<r.val>> ELSE <<>>)
        Each(F(_)) == IF coordinates.k # "seq" THEN R("TypeError", <<>>)
                      ELSE Chain([i \in 1..Len(coordinates.v) |->
                                     F(coordinates.v[i])])
    IN  IF type_ = Str(POINT) THEN Ok(<<point(coordinates)>>)
        ELSE IF type_ = Str(LINE_STRING) THEN One(lwpolyline(coordinates))
        ELSE IF type_ = Str(POLYGON) THEN unpack_polygon(coordinates, polygon)
        ELSE IF type_ = Str(MULTI_POINT)
        THEN Each(LAMBDA data : Ok(<<point(data)>>))
        ELSE IF type_ = Str(MULTI_LINE_STRING)
        THEN Each(LAMBDA data : One(lwpolyline(data)))
        ELSE IF type_ = Str(MULTI_POLYGON)
        THEN Each(LAMBDA data : unpack_polygon(data, polygon))
        ELSE Ok(<<>>)

\* to_dxf_entities(polygon): val is the sequence of the entities yielded
to_dxf_entities(_root, polygon) ==
    LET it == __iter__(_root)
        Of(_mapping) == IF _mapping.k # "dict" THEN R("AttributeError", <<>>)
                        ELSE entity_(Get(_mapping, TYPE),
                                     Get(_mapping, COORDINATES), polygon)
        r == Chain([i \in 1..Len(it.val) |-> Of(it.val[i].node)])
    IN  IF ~IsOk(r) THEN r ELSE R(it.err, r.val)

\* ------------------------------------------------------------- the inputs

\* the longest list of features, geometries, lines, polygons or entities
MaxMembers == 2
\* the most method calls on the proxies of one run
MaxCalls == 3

SeqsFrom(S, lo, hi) == UNION {[1..n -> S] : n \in lo..hi}

P(x, y) == List(<<Num(x), Num(y)>>)
P3(x, y, z) == List(<<Num(x), Num(y), Num(z)>>)
Tagged(type_) == SetItem(EmptyDict, TYPE, Str(type_))
Geometry(type_, coordinates) == SetItem(Tagged(type_), COORDINATES, coordinates)

WirePoints == {P(0, 0), P(1, 2), P3(1, 2, 3)}
WireLines == {List(<<P(0, 0), P(1, 0)>>), List(<<P(0, 0), P(0, 1), P(1, 1)>>)}
\* a closed counter-clockwise square, the same clockwise, an open clockwise
\* triangle, and a clockwise and a counter-clockwise hole inside the square
RingCCW == List(<<P(0, 0), P(3, 0), P(3, 3), P(0, 3), P(0, 0)>>)
RingCW == List(<<P(0, 0), P(0, 3), P(3, 3), P(3, 0), P(0, 0)>>)
RingOpenCW == List(<<P(0, 0), P(0, 3), P(3, 3)>>)
HoleCW == List(<<P(1, 1), P(1, 2), P(2, 2), P(2, 1), P(1, 1)>>)
HoleCCW == List(<<P(1, 1), P(2, 1), P(2, 2), P(1, 2), P(1, 1)>>)
\* Polygon coordinates: flat rings, and lists [exterior, hole, ...]
WirePolygons ==
    {RingCCW, RingCW, RingOpenCW, List(<<RingCCW>>),
     List(<<RingCCW, HoleCW>>), List(<<RingCW, HoleCCW>>)}
\* Polygon coordinates without a ring of two points: the empty list, one
\* point, and the same as the exterior of a list of rings
DegeneratePolygons ==
    {List(<<>>), List(<<P(0, 0)>>), List(<<List(<<>>)>>),
     List(<<List(<<P(0, 0)>>)>>), List(<<List(<<P(0, 0)>>), HoleCW>>)}
WireMultiPolygonMembers == {RingCCW, RingOpenCW, List(<<RingCCW, HoleCW>>)}

WireLeaves ==
    {Geometry(POINT, c) : c \in WirePoints}
    \cup {Geometry(LINE_STRING, c) : c \in WireLines}
    \cup {Geometry(MULTI_POINT, c) : c \in WireLines}
    \cup {Geometry(MULTI_LINE_STRING, List(c)) :
             c \in SeqsFrom(WireLines, 0, MaxMembers)}
    \cup {Geometry(POLYGON, c) : c \in WirePolygons}
    \cup {Geometry(MULTI_POLYGON, List(c)) :
             c \in SeqsFrom(WireMultiPolygonMembers, 1, MaxMembers)}

\* one leaf of each of the six geometry tags
SampleLeaves ==
    {Geometry(POINT, P(1, 2)),
     Geometry(LINE_STRING, List(<<P(0, 0), P(1, 0)>>)),
     Geometry(MULTI_POINT, List(<<P(0, 0), P(1, 0)>>)),
     Geometry(MULTI_LINE_STRING, List(<<List(<<P(0, 0), P(1, 0)>>)>>)),
     Geometry(POLYGON, List(<<RingCCW, HoleCW>>)),
     Geometry(MULTI_POLYGON, List(<<RingCCW>>))}

Collection(type_, key, members) == SetItem(Tagged(type_), key, List(members))

WireGeometryCollections ==
    {Collection(GEOMETRY_COLLECTION, GEOMETRIES, m) :
        m \in SeqsFrom({Geometry(POINT, P(1, 2)),
                        Geometry(LINE_STRING, List(<<P(0, 0), P(1, 0)>>)),
                        Geometry(POLYGON, RingCCW)}, 1, MaxMembers)}

Feature(geometry, properties) ==
    SetItem(SetItem(Tagged(FEATURE), GEOMETRY, geometry), PROPERTIES, properties)

WireFeatures ==
    {Feature(g, pr) :
        g \in {None_} \cup SampleLeaves
              \cup {Collection(GEOMETRY_COLLECTION, GEOMETRIES,
                               <<Geometry(POINT, P(1, 2))>>)},
        pr \in {Absent, Str("p")}}

WireFeatureCollections ==
    {Collection(FEATURE_COLLECTION, FEATURES, m) :
        m \in SeqsFrom({Feature(None_, Absent), Feature(None_, Str("p")),
                        Feature(Geometry(POINT, P(1, 2)), Absent)},
                       1, MaxMembers)}

\* the mappings that are valid wire-form data
ValidWire ==
    WireLeaves \cup WireGeometryCollections \cup WireFeatures
    \cup WireFeatureCollections

GeometryTags ==
    {POINT, MULTI_POINT, LINE_STRING, MULTI_LINE_STRING, POLYGON, MULTI_POLYGON}
Tags == GeometryTags \cup {GEOMETRY_COLLECTION, FEATURE, FEATURE_COLLECTION}

\* malformed mappings: no type, an unknown type, the required key missing,
\* an empty member list
MalformedWire ==
    {SetItem(EmptyDict, COORDINATES, P(0, 0)), EmptyDict,
     Geometry("Circle", P(0, 0)), Tagged("Circle")}
    \cup {Tagged(t) : t \in Tags}
    \cup {Collection(FEATURE_COLLECTION, FEATURES, <<>>),
          Collection(GEOMETRY_COLLECTION, GEOMETRIES, <<>>),
          Collection(FEATURE_COLLECTION, FEATURES,
                     <<Feature(None_, Absent), Tagged(FEATURE)>>),
          Collection(FEATURE_COLLECTION, FEATURES,
                     <<Feature(EmptyDict, Absent), Tagged(FEATURE)>>)}

\* mappings that are no valid wire-form data and that parse accepts: the
\* geometry of a Feature is an empty mapping, or is itself a Feature, here one
\* with a foreign member "coordinates" that holds a Vector
IrregularWire ==
    {Feature(EmptyDict, Absent),
     Feature(Feature(None_, Absent), Absent),
     Feature(SetItem(Feature(None_, Absent), COORDINATES,
                     List(<<Vector3(1, 2, 0)>>)), Absent)}

WireInputs == ValidWire \cup MalformedWire \cup IrregularWire

\* the tree the documentation of parse and GeoProxy describes for a valid
\* mapping: coordinates as Vector objects, a Polygon as (exterior, holes)
IsFlatRing(c) == c.v[1].v[1].k = "num"
VectorsOf(c) == Vector_list(c).val
PairOf(c) ==
    IF IsFlatRing(c) THEN List(<<VectorsOf(c), List(<<>>)>>)
    ELSE List(<<VectorsOf(c.v[1]),
                List([i \in 1..(Len(c.v) - 1) |-> VectorsOf(c.v[i + 1])])>>)

RECURSIVE Internal(_)
Internal(x) ==
    LET type_ == x.v[TYPE].v
        c == x.v[COORDINATES]
        Each(F(_), l) == List([i \in 1..Len(l.v) |-> F(l.v[i])])
    IN  CASE type_ = FEATURE_COLLECTION ->
                SetItem(x, FEATURES, Each(Internal, x.v[FEATURES]))
          [] type_ = GEOMETRY_COLLECTION ->
                SetItem(x, GEOMETRIES, Each(Internal, x.v[GEOMETRIES]))
          [] type_ = FEATURE ->
                IF x.v[GEOMETRY] = None_ THEN x
                ELSE SetItem(x, GEOMETRY, Internal(x.v[GEOMETRY]))
          [] type_ = POINT -> SetItem(x, COORDINATES, Vector(c).val)
          [] type_ \in {LINE_STRING, MULTI_POINT} ->
                SetItem(x, COORDINATES, VectorsOf(c))
          [] type_ = MULTI_LINE_STRING ->
                SetItem(x, COORDINATES, Each(VectorsOf, c))
          [] type_ = POLYGON -> SetItem(x, COORDINATES, PairOf(c))
          [] type_ = MULTI_POLYGON -> SetItem(x, COORDINATES, Each(PairOf, c))

InternalTrees == {Internal(x) : x \in ValidWire}

\* the transformation matrices: a translation and a mirroring about the y-axis
Matrices ==
    {[ux |-> <<1, 0>>, uy |-> <<0, 1>>, o |-> <<1, 2, 0>>],
     [ux |-> <<-1, 0>>, uy |-> <<0, 1>>, o |-> <<0, 0, 0>>]}

\* the entities: vertices on the integer grid
Vs(s) == List([i \in 1..Len(s) |-> Vector3(s[i][1], s[i][2], 0)])
Entities ==
    {Entity("POINT", Vs(<<<<1, 2>>>>), ""),
     Entity("POINT", Vs(<<<<0, 3>>>>), ""),
     Entity("LINE", Vs(<<<<0, 0>>, <<1, 0>>>>), ""),
     Entity("LINE", Vs(<<<<0, 0>>, <<0, 1>>>>), ""),
     Entity("LWPOLYLINE", Vs(<<<<0, 0>>, <<0, 3>>, <<3, 3>>, <<3, 0>>, <<0, 0>>>>), ""),
     Entity("LWPOLYLINE", Vs(<<<<0, 0>>, <<3, 0>>, <<3, 3>>>>), ""),
     Entity("POLYLINE", Vs(<<<<0, 0>>, <<3, 0>>, <<3, 3>>, <<0, 0>>>>), "2d"),
     Entity("POLYLINE", Vs(<<<<0, 0>>, <<3, 0>>, <<3, 3>>, <<0, 0>>>>), "mesh"),
     Entity("CIRCLE", Vs(<<<<1, 0>>, <<0, 1>>, <<-1, 0>>, <<0, -1>>, <<1, 0>>>>), ""),
     Entity("SOLID", Vs(<<<<0, 0>>, <<0, 2>>, <<2, 0>>, <<0, 0>>>>), ""),
     Entity("TEXT", Vs(<<<<0, 0>>>>), ""),
     Entity("HATCH",
            List(<<BoundaryPath({"external"},
                                Vs(<<<<0, 0>>, <<0, 3>>, <<3, 3>>, <<3, 0>>>>))>>),
            "outermost"),
     Entity("HATCH",
            List(<<BoundaryPath({"external"},
                                Vs(<<<<0, 0>>, <<0, 3>>, <<3, 3>>, <<3, 0>>>>)),
                   BoundaryPath({"outermost"},
                                Vs(<<<<1, 1>>, <<2, 1>>, <<2, 2>>, <<1, 2>>>>))>>),
            "nested"),
     Entity("HATCH", List(<<>>), "nested")}

\* more hatches, handed to mapping alone: no path flagged external; the
\* style "ignore" with two paths; an external path that is flagged outermost
\* too; default paths under the styles "outermost" and "nested"
Hatches ==
    LET Outer == Vs(<<<<0, 0>>, <<0, 3>>, <<3, 3>>, <<3, 0>>>>)
        Inner == Vs(<<<<1, 1>>, <<2, 1>>, <<2, 2>>, <<1, 2>>>>)
        Island == Vs(<<<<4, 4>>, <<5, 4>>, <<5, 5>>>>)
    IN  {Entity("HATCH", List(<<BoundaryPath({}, Outer),
                                BoundaryPath({"outermost"}, Inner)>>),
                "outermost"),
         Entity("HATCH", List(<<BoundaryPath({"outermost"}, Inner),
                                BoundaryPath({"external"}, Outer)>>),
                "ignore"),
         Entity("HATCH", List(<<BoundaryPath({"external", "outermost"}, Outer),
                                BoundaryPath({"outermost"}, Inner)>>),
                "outermost"),
         Entity("HATCH", List(<<BoundaryPath({"external"}, Outer),
                                BoundaryPath({}, Inner)>>),
                "outermost"),
         Entity("HATCH", List(<<BoundaryPath({"external"}, Outer),
                                BoundaryPath({"outermost"}, Inner),
                                BoundaryPath({}, Island)>>),
                "nested"),
         Entity("HATCH", List(<<BoundaryPath({}, Outer)>>), "nested")}

EntityLists == {List(es) : es \in SeqsFrom(Entities, 0, MaxMembers)}

\* entities of the other types, handed to mapping alone
OtherEntities ==
    {Entity("ARC", Vs(<<<<1, 0>>, <<0, 1>>, <<-1, 0>>>>), ""),
     Entity("ELLIPSE", Vs(<<<<2, 0>>, <<0, 1>>, <<-2, 0>>, <<0, -1>>, <<2, 0>>>>), ""),
     Entity("SPLINE", Vs(<<<<0, 0>>, <<1, 1>>, <<2, 0>>>>), ""),
     Entity("TRACE", Vs(<<<<0, 0>>, <<0, 2>>, <<2, 0>>, <<0, 0>>>>), ""),
     Entity("3DFACE", Vs(<<<<0, 0>>, <<2, 0>>, <<0, 2>>, <<0, 0>>>>), ""),
     Entity("POLYLINE", Vs(<<<<0, 0>>, <<3, 0>>, <<3, 3>>>>), "3d"),
     Entity("POLYLINE", Vs(<<<<0, 0>>, <<3, 0>>, <<3, 3>>, <<0, 0>>>>), "face"),
     Entity("MTEXT", Vs(<<<<0, 0>>>>), ""),
     Entity("INSERT", Vs(<<<<0, 0>>>>), "")}

\* the mappings handed to the join: what mapping returns for entities, and a
\* mapping that is a MultiLineString already
SingleMappings ==
    {SetItem(SetItem(EmptyDict, TYPE, Str(POINT)), COORDINATES, Vector3(1, 2, 0)),
     line_string_mapping(Vs(<<<<0, 0>>, <<1, 0>>>>)),
     line_string_mapping(Vs(<<<<0, 0>>, <<0, 1>>>>)),
     polygon_mapping(Vs(<<<<0, 0>>, <<0, 3>>, <<3, 3>>, <<3, 0>>>>), None_).val,
     Geometry(MULTI_LINE_STRING, List(<<Vs(<<<<0, 0>>, <<1, 0>>>>)>>))}

MappingLists == SeqsFrom(SingleMappings, 0, MaxMembers)

\* the values of the argument polygon: hatch, polylines, both
PolygonMethods == {1, 2, 3}

\* the trees of the valid geometry mappings
InternalLeaves == {Internal(x) : x \in WireLeaves}

\* -------------------------------------------------------------- the state

\* heap: the trees by object, None_ for an object not in use; proxy, copy_:
\* the object that is the _root of the proxy and of its copy, 0 for no proxy;
\* wire: the mapping the proxy was constructed from, as the caller wrote it;
\* calls: the method calls made on the proxies; call: the last call made, with
\* the heap before it; caller: the object that is the mapping the caller gave
\* to GeoProxy, 0 for none; proxy2: the object that is the _root of a second
\* proxy made of that same mapping, 0 for none; cache: the caches of the
\* Bernstein polynomials, which the module keeps for all curves
VARIABLES heap, proxy, copy_, wire, calls, call, caller, proxy2, cache

vars == <<heap, proxy, copy_, wire, calls, call, caller, proxy2, cache>>

OBJECTS == {1, 2}

\* the entries each of the two caches holds at most: lines 26 and 39 give
\* them 300; the model gives them few, so that a call fills and evicts
maxsize == 3

\* the caches of bernstein3 and bernstein3_d1: for each the parameters of its
\* entries, the least recently used first; an entry returns what the function
\* returned for the parameter that made the entry
Caches(size) == [maxsize |-> size, bernstein3 |-> <<>>, bernstein3_d1 |-> <<>>]

\* the functions without a cache: lru_cache(maxsize=0) keeps no entry
NoCache == Caches(0)

Call(op, target, arg, force, r, pre) ==
    [op |-> op, target |-> target, arg |-> arg, force |-> force,
     err |-> r.err, ret |-> r.val, pre |-> pre]

Init ==
    /\ heap = [o \in OBJECTS |-> None_]
    /\ proxy = 0
    /\ copy_ = 0
    /\ wire = None_
    /\ calls = 0
    /\ call = Call("start", 0, None_, FALSE, Ok(None_), heap)
    /\ caller = 0
    /\ proxy2 = 0
    /\ cache = Caches(maxsize)

\* GeoProxy(geo_mapping): the caller's mapping is object 1; parse changes it
\* in place and returns it (line 324), and __init__ keeps what parse returns
\* as _root (line 89), which is the caller's mapping itself
GeoProxy(geo_mapping) ==
    \E r \in {parse(geo_mapping)} :
        /\ call.op = "start"
        /\ call' = Call("GeoProxy", 1, geo_mapping, FALSE, r, heap)
        /\ wire' = geo_mapping
        /\ caller' = 1
        /\ heap' = [heap EXCEPT ![1] = r.val]
        /\ proxy' = IF IsOk(r) THEN caller' ELSE 0
        /\ UNCHANGED <<copy_, calls, proxy2, cache>>

\* GeoProxy(m) once more, m being the mapping the proxy was constructed from
GeoProxyOfSameMapping ==
    /\ proxy # 0 /\ caller # 0 /\ proxy2 = 0
    /\ \E r \in {parse(heap[caller])} :
           /\ call' = Call("GeoProxy", caller, heap[caller], FALSE, r, heap)
           /\ heap' = [heap EXCEPT ![caller] = r.val]
           /\ proxy2' = IF IsOk(r) THEN caller ELSE 0
    /\ UNCHANGED <<proxy, copy_, wire, calls, caller, cache>>

\* GeoProxy.from_dxf_entities(entity, distance, force_line_string): line 193
\* hands collection the distance only
from_dxf_entities(entity, force_line_string) ==
    \E m \in {IF entity.k = "entity" THEN mapping(entity, force_line_string)
              ELSE collection(entity, FALSE)} :
    \E r \in {IF IsOk(m) THEN parse(m.val) ELSE m} :
        /\ call.op = "start"
        /\ call' = Call("from_dxf_entities", 1, entity, force_line_string, r, heap)
        /\ wire' = IF IsOk(m) THEN m.val ELSE None_
        /\ IF IsOk(r)
           THEN heap' = [heap EXCEPT ![1] = r.val] /\ proxy' = 1
           ELSE UNCHANGED <<heap, proxy>>
        /\ UNCHANGED <<copy_, calls, caller, proxy2, cache>>

\* a variant of the copy that shares the tree: copy.copy(self)
__copy__shallow(h, _root) == [heap |-> h, root |-> _root]

\* copy.deepcopy(self): the copy's tree is a new object
__copy__(h, _root) ==
    LET new == CHOOSE o \in OBJECTS : o # _root
    IN  [heap |-> [h EXCEPT ![new] = h[_root]], root |-> new]

Copy ==
    /\ proxy # 0 /\ copy_ = 0
    /\ \E c \in {__copy__(heap, proxy)} :
           /\ heap' = c.heap
           /\ copy_' = c.root
           /\ call' = Call("copy", proxy, None_, FALSE, Ok(None_), heap)
    /\ UNCHANGED <<proxy, wire, calls, caller, proxy2, cache>>

\* the objects that are the _root of a proxy
Targets == {proxy, copy_} \ {0}

\* crs_to_wcs(crs) on the proxy whose _root is target
CrsToWcs(target, crs) ==
    /\ target \in Targets /\ calls < MaxCalls
    /\ \E r \in {crs_to_wcs(heap[target], crs)} :
           /\ heap' = [heap EXCEPT ![target] = r.val]
           /\ call' = Call("crs_to_wcs", target, V("matrix", crs), FALSE,
                           R(r.err, None_), heap)
    /\ calls' = calls + 1
    /\ UNCHANGED <<proxy, copy_, wire, caller, proxy2, cache>>

\* wcs_to_crs(crs) on the proxy whose _root is target
WcsToCrs(target, crs) ==
    /\ target \in Targets /\ calls < MaxCalls
    /\ \E r \in {wcs_to_crs(heap[target], crs)} :
           /\ heap' = [heap EXCEPT ![target] = r.val]
           /\ call' = Call("wcs_to_crs", target, V("matrix", crs), FALSE,
                           R(r.err, None_), heap)
    /\ calls' = calls + 1
    /\ UNCHANGED <<proxy, copy_, wire, caller, proxy2, cache>>

GeoInterface(target) ==
    /\ target \in Targets /\ calls < MaxCalls
    /\ calls' = calls + 1
    /\ \E r \in {__geo_interface__(heap[target])} :
           call' = Call("__geo_interface__", target, None_, FALSE, r, heap)
    /\ UNCHANGED <<heap, proxy, copy_, wire, caller, proxy2, cache>>

\* list(proxy): the objects yielded, and the exception that ends the iteration
Iterate(target) ==
    /\ target \in Targets /\ calls < MaxCalls
    /\ calls' = calls + 1
    /\ \E it \in {__iter__(heap[target])} :
           call' = Call("__iter__", target, None_, FALSE,
                        R(it.err, Yielded(it)), heap)
    /\ UNCHANGED <<heap, proxy, copy_, wire, caller, proxy2, cache>>

\* a call of a module-level function keeps no state: a run is one such call,
\* or the life of one proxy
CallRebuild ==
    /\ call.op = "start"
    /\ \E t \in InternalTrees : \E r \in {_rebuild(t)} :
           call' = Call("_rebuild", 0, t, FALSE, r, heap)
    /\ UNCHANGED <<heap, proxy, copy_, wire, calls, caller, proxy2, cache>>

CallParsePolygon ==
    /\ call.op = "start"
    /\ \E c \in WirePolygons \cup DegeneratePolygons :
       \E r \in {_parse_polygon(c)} :
           call' = Call("_parse_polygon", 0, c, FALSE, r, heap)
    /\ UNCHANGED <<heap, proxy, copy_, wire, calls, caller, proxy2, cache>>

CallMapping ==
    /\ call.op = "start"
    /\ \E e \in Entities \cup OtherEntities \cup Hatches, f \in BOOLEAN :
       \E r \in {mapping(e, f)} :
           call' = Call("mapping", 0, e, f, r, heap)
    /\ UNCHANGED <<heap, proxy, copy_, wire, calls, caller, proxy2, cache>>

CallCollection ==
    /\ call.op = "start"
    /\ \E es \in EntityLists, f \in BOOLEAN : \E r \in {collection(es, f)} :
           call' = Call("collection", 0, es, f, r, heap)
    /\ UNCHANGED <<heap, proxy, copy_, wire, calls, caller, proxy2, cache>>

\* to_dxf_entities(polygon) on the proxy whose _root is target, the
\* generator run to its end
ToDxfEntities(target, polygon) ==
    /\ target \in Targets /\ calls < MaxCalls
    /\ calls' = calls + 1
    /\ \E r \in {to_dxf_entities(heap[target], polygon)} :
           call' = Call("to_dxf_entities", target, Num(polygon), FALSE,
                        R(r.err, List(r.val)), heap)
    /\ UNCHANGED <<heap, proxy, copy_, wire, caller, proxy2, cache>>

\* entity(type_, coordinates) of to_dxf_entities(polygon) for a geometry leaf
CallEntity ==
    /\ call.op = "start"
    /\ \E t \in InternalLeaves, polygon \in PolygonMethods :
       \E r \in {entity_(t.v[TYPE], t.v[COORDINATES], polygon)} :
           call' = Call("entity", 0, List(<<t, Num(polygon)>>), FALSE,
                        R(r.err, List(r.val)), heap)
    /\ UNCHANGED <<heap, proxy, copy_, wire, calls, caller, proxy2, cache>>

CallJoin ==
    /\ call.op = "start"
    /\ \E gs \in MappingLists : \E r \in {join_multi_single_type_mappings(gs)} :
           call' = Call("join_multi_single_type_mappings", 0, List(gs), FALSE,
                        r, heap)
    /\ UNCHANGED <<heap, proxy, copy_, wire, calls, caller, proxy2, cache>>

\* ------------------------------------------------- the cubic Bezier curve
\* A float is a whole number of steps of 1/ONE: ONE is 1.0, a product is
\* rounded to the nearest step (ties to even), sums and differences of
\* steps are exact.
ONE == 60

\* -0.0, the zero with the sign bit set: a value of its own, below every
\* number of steps the model computes with; it equals 0.0 in comparisons
NegZero == 0 - ONE * ONE * ONE

\* the number a float stands for, its sign bit, and the zero of a sign
fval(a) == IF a = NegZero THEN 0 ELSE a
fsign(a) == a < 0
fzero(negative) == IF negative THEN NegZero ELSE 0

\* n / d rounded to the nearest whole number, ties to the even one
RoundDiv(n, d) ==
    LET q == n \div d
        r == n % d
    IN  IF 2 * r < d THEN q
        ELSE IF 2 * r > d THEN q + 1
        ELSE IF q % 2 = 0 THEN q ELSE q + 1

\* the float product a * b: the product with a zero is the zero whose sign
\* is the product of the signs
fmul(a, b) ==
    IF fval(a) = 0 \/ fval(b) = 0 THEN fzero(fsign(a) # fsign(b))
    ELSE RoundDiv(a * b, ONE)

\* the float sum a + b: the sum of two zeros is -0.0 only when both are, and
\* x + (-x) is 0.0
fadd(a, b) ==
    IF fval(a) = 0 /\ fval(b) = 0 THEN fzero(a = NegZero /\ b = NegZero)
    ELSE fval(a) + fval(b)

\* the float difference a - b, which is a + (-b)
fsub(a, b) == fadd(a, IF fval(b) = 0 THEN fzero(b # NegZero) ELSE -b)

\* Vec2 and Vec3: __add__, __mul__ by a float, lerp(other, factor=0.5) and
\* distance (compared by its square)
VecAdd(a, b) == V(a.k, [i \in DOMAIN a.v |-> fadd(a.v[i], b.v[i])])
VecMul(a, f) == V(a.k, [i \in DOMAIN a.v |-> fmul(a.v[i], f)])
lerp(a, b) ==
    V(a.k, [i \in DOMAIN a.v |->
               fadd(a.v[i], fmul(fsub(b.v[i], a.v[i]), ONE \div 2))])
RECURSIVE SumSquares(_)
SumSquares(d) == IF d = <<>> THEN 0 ELSE d[1] * d[1] + SumSquares(Tail(d))
distance_squared(a, b) ==
    SumSquares([i \in DOMAIN a.v |-> fval(a.v[i]) - fval(b.v[i])])

\* vector_class.tuple(defpoints): Vec3 when a point has more than 2
\* components, Vec2 otherwise; Vec3 sets a missing z to 0
Vec_tuple(defpoints) ==
    IF \E i \in DOMAIN defpoints : Len(defpoints[i]) > 2
    THEN [i \in DOMAIN defpoints |->
             V("vec", IF Len(defpoints[i]) > 2 THEN defpoints[i]
                      ELSE Append(defpoints[i], 0))]
    ELSE [i \in DOMAIN defpoints |-> V("vec2", defpoints[i])]

\* check_if_in_valid_range(t): TRUE when it raises ValueError
check_if_in_valid_range_open_start(t) == ~(0 < fval(t) /\ fval(t) <= ONE)

check_if_in_valid_range(t) == ~(0 <= fval(t) /\ fval(t) <= ONE)

bernstein3(t) ==
    LET t2 == fmul(t, t)
        _1_minus_t == fsub(ONE, t)
        _1_minus_t_square == fmul(_1_minus_t, _1_minus_t)
    IN  <<fmul(_1_minus_t_square, _1_minus_t),
          fmul(fmul(3 * ONE, _1_minus_t_square), t),
          fmul(fmul(3 * ONE, _1_minus_t), t2),
          fmul(t2, t)>>

bernstein3_d1(t) ==
    LET t2 == fmul(t, t)
    IN  <<fmul(-3 * ONE, fmul(fsub(ONE, t), fsub(ONE, t))),
          fmul(3 * ONE, fadd(fsub(ONE, fmul(4 * ONE, t)), fmul(3 * ONE, t2))),
          fmul(fmul(3 * ONE, t), fsub(2 * ONE, fmul(3 * ONE, t))),
          fmul(3 * ONE, t2)>>

\* a call with the parameter t of a function under
\* functools.lru_cache(maxsize=size): the key is the parameter under == and
\* hash, for which -0.0 and 0.0 are one key. A hit returns what the function
\* returned for the parameter "of" that made the entry, and makes the entry
\* the most recent one; a miss calls the function with t and drops the least
\* recent entry of a full cache
lru_cache(size, entries, t) ==
    LET hits == SelectSeq(entries, LAMBDA key : fval(key) = fval(t))
        others == SelectSeq(entries, LAMBDA key : fval(key) # fval(t))
    IN  IF hits # <<>>
        THEN [of |-> hits[1], entries |-> Append(others, hits[1])]
        ELSE [of |-> t,
              entries |-> IF size = 0 THEN <<>>
                          ELSE IF Len(entries) >= size
                          THEN Append(Tail(entries), t)
                          ELSE Append(entries, t)]

\* b1 * a + b2 * b + b3 * c + b4 * d
Combine(control_points, w) ==
    VecAdd(VecAdd(VecAdd(VecMul(control_points[1], w[1]),
                         VecMul(control_points[2], w[2])),
                  VecMul(control_points[3], w[3])),
           VecMul(control_points[4], w[4]))

\* the result of a method and the caches as it leaves them
RC(err, val, cache_) == [err |-> err, val |-> val, cache |-> cache_]

\* _get_curve_point(t) and _get_curve_tangent(t): the vector p and the
\* caches after the call
_get_curve_point(control_points, t, cache_) ==
    LET b == lru_cache(cache_.maxsize, cache_.bernstein3, t)
    IN  [p |-> Combine(control_points, bernstein3(b.of)),
         cache |-> [cache_ EXCEPT !.bernstein3 = b.entries]]

_get_curve_tangent(control_points, t, cache_) ==
    LET b == lru_cache(cache_.maxsize, cache_.bernstein3_d1, t)
    IN  [p |-> Combine(control_points, bernstein3_d1(b.of)),
         cache |-> [cache_ EXCEPT !.bernstein3_d1 = b.entries]]

\* Bezier4P.__init__(defpoints): the control points of the new curve
Bezier4P__init__(defpoints) ==
    IF Len(defpoints) = 4 THEN Ok(V("bezier", Vec_tuple(defpoints)))
    ELSE R("ValueError", None_)

\* Bezier4P.point(t) and Bezier4P.tangent(t)
Bezier4P_point(control_points, t, cache_) ==
    IF check_if_in_valid_range(t) THEN RC("ValueError", None_, cache_)
    ELSE LET g == _get_curve_point(control_points, t, cache_)
         IN  RC("none", g.p, g.cache)

Bezier4P_tangent(control_points, t, cache_) ==
    IF check_if_in_valid_range(t) THEN RC("ValueError", None_, cache_)
    ELSE LET g == _get_curve_tangent(control_points, t, cache_)
         IN  RC("none", g.p, g.cache)

\* "for segment in range(first, stop): yield _get_curve_point(delta_t *
\* segment)": the vertices yielded and the caches after them
RECURSIVE approximate_loop(_, _, _, _, _)
approximate_loop(control_points, delta_t, segment, stop, cache_) ==
    IF segment >= stop THEN [val |-> <<>>, cache |-> cache_]
    ELSE CHOOSE y \in
        {(CHOOSE z \in
             {[val |-> <<g.p>> \o rest.val, cache |-> rest.cache] :
              rest \in {approximate_loop(control_points, delta_t, segment + 1,
                                         stop, g.cache)}} : TRUE) :
         g \in {_get_curve_point(control_points, delta_t * segment, cache_)}} : TRUE

\* approximate with the loop running one segment too far
approximate_one_more(control_points, segments, cache_) ==
    IF segments < 1 THEN RC("ValueError", <<>>, cache_)
    ELSE LET delta_t == RoundDiv(ONE * 1, segments)
             loop == approximate_loop(control_points, delta_t, 1, segments + 1,
                                      cache_)
         IN  RC("none",
                <<control_points[1]>> \o loop.val \o <<control_points[4]>>,
                loop.cache)

\* Bezier4P.approximate(segments): the vertices it yields
approximate(control_points, segments, cache_) ==
    IF segments < 1 THEN RC("ValueError", <<>>, cache_)
    ELSE LET delta_t == RoundDiv(ONE * 1, segments)
             loop == approximate_loop(control_points, delta_t, 1, segments,
                                      cache_)
         IN  RC("none",
                <<control_points[1]>> \o loop.val \o <<control_points[4]>>,
                loop.cache)

\* the deepest nesting of calls the interpreter allows before RecursionError
RecursionLimit == 10

\* a yielded vertex p, with the curve parameter t it stands for
Vertex(t, p) == [t |-> t, p |-> p]

\* one half after the other: what the first yields, then, unless it raised,
\* what the second yields
Then(first, second) ==
    IF IsOk(first)
    THEN RC(second.err, first.val \o second.val, second.cache)
    ELSE first

\* the curve point at t as subdiv and the loop of flattening hold it
Evaluated(control_points, t, cache_) ==
    CHOOSE e \in {[t |-> t, p |-> g.p, cache |-> g.cache] :
                     g \in {_get_curve_point(control_points, t, cache_)}} : TRUE

RECURSIVE subdiv_inverted_test(_, _, _, _, _, _, _, _)
\* subdiv with the test the wrong way round: it divides the segments that
\* are near the curve and keeps the others
subdiv_inverted_test(control_points, distance, start_point, end_point, start_t, end_t, depth, cache_) ==
    IF depth > RecursionLimit THEN RC("RecursionError", <<>>, cache_)
    ELSE CHOOSE y \in
        {IF distance_squared(lerp(start_point, end_point), mid.p)
                > distance * distance
         THEN RC("none", <<Vertex(end_t, end_point)>>, mid.cache)
         ELSE (CHOOSE z \in
                 {IF IsOk(first)
                  THEN Then(first, subdiv_inverted_test(
                                       control_points, distance, mid.p,
                                       end_point, mid.t, end_t, depth + 1,
                                       first.cache))
                  ELSE first :
                  first \in {subdiv_inverted_test(
                                 control_points, distance, start_point,
                                 mid.p, start_t, mid.t, depth + 1,
                                 mid.cache)}} : TRUE) :
         mid \in {Evaluated(control_points,
                            fmul(start_t + end_t, ONE \div 2), cache_)}} : TRUE

RECURSIVE subdiv(_, _, _, _, _, _, _, _)
\* subdiv of flattening, depth counting the nested calls: the vertices
\* yielded before it ends or raises
subdiv(control_points, distance, start_point, end_point, start_t, end_t, depth, cache_) ==
    IF depth > RecursionLimit THEN RC("RecursionError", <<>>, cache_)
    ELSE CHOOSE y \in
        {IF distance_squared(lerp(start_point, end_point), mid.p)
                < distance * distance
         THEN RC("none", <<Vertex(end_t, end_point)>>, mid.cache)
         ELSE (CHOOSE z \in
                 {IF IsOk(first)
                  THEN Then(first, subdiv(control_points, distance, mid.p,
                                          end_point, mid.t, end_t, depth + 1,
                                          first.cache))
                  ELSE first :
                  first \in {subdiv(control_points, distance, start_point,
                                    mid.p, start_t, mid.t, depth + 1,
                                    mid.cache)}} : TRUE) :
         mid \in {Evaluated(control_points,
                            fmul(start_t + end_t, ONE \div 2), cache_)}} : TRUE

RECURSIVE flattening_loop(_, _, _, _, _, _)
\* the while loop of flattening from t0 on
flattening_loop(control_points, distance, dt, t0, start_point, cache_) ==
    IF ~(t0 < ONE) THEN RC("none", <<>>, cache_)
    ELSE CHOOSE y \in
        {(CHOOSE z \in
             {IF IsOk(part)
              THEN Then(part, flattening_loop(control_points, distance, dt,
                                              end.t, end.p, part.cache))
              ELSE part :
              part \in {subdiv(control_points, distance, start_point, end.p,
                               t0, end.t, 1, end.cache)}} : TRUE) :
         end \in {IF isclose(t0 + dt, ONE)
                  THEN [t |-> ONE, p |-> control_points[4], cache |-> cache_]
                  ELSE Evaluated(control_points, t0 + dt, cache_)}} : TRUE

\* Bezier4P.flattening(distance, segments): the vertices it yields
flattening(control_points, distance, segments, cache_) ==
    Then(RC("none", <<Vertex(0, control_points[1])>>, cache_),
         flattening_loop(control_points, distance, RoundDiv(ONE * 1, segments),
                         0, control_points[1], cache_))

\* the curves: an arch, an S, an arch in space with one 3D point, and the
\* arch mirrored at the y-axis, whose first point has the x-coordinate -0.0;
\* then lists of three and of five points
DefPoints ==
    {<< <<0, 0>>, <<60, 120>>, <<180, 120>>, <<240, 0>> >>,
     << <<0, 0>>, <<60, 60>>, <<120, -60>>, <<180, 0>> >>,
     << <<0, 0, 60>>, <<60, 120>>, <<180, 120>>, <<240, 0>> >>,
     << <<NegZero, 0>>, <<-60, 120>>, <<-180, 120>>, <<-240, 0>> >>,
     << <<0, 0>>, <<60, 120>>, <<240, 0>> >>,
     << <<0, 0>>, <<60, 120>>, <<180, 120>>, <<240, 0>>, <<300, 0>> >>}

\* the parameters given to point and tangent: inside, at the ends of and
\* outside [0, 1], 0.0 and -0.0
Parameters == {-ONE, -1, 0, NegZero, 1, 20, 30, ONE - 1, ONE, ONE + 1, 2 * ONE}

\* the most segments asked of approximate and flattening
MaxSegments == 3
SegmentCounts == {-1, 0} \cup 1..MaxSegments

\* the distances given to flattening: one step (below the spacing of the
\* curve points), 0.1, 0.25 and 1.0
Distances == {1, 6, 15, ONE}

Bezier4P(defpoints) ==
    \E r \in {Bezier4P__init__(defpoints)} :
        /\ call.op = "start"
        /\ call' = Call("Bezier4P", 1, List(defpoints), FALSE,
                        R(r.err, None_), heap)
        /\ IF IsOk(r) THEN heap' = [heap EXCEPT ![1] = r.val]
           ELSE UNCHANGED heap
        /\ UNCHANGED <<proxy, copy_, wire, calls, caller, proxy2, cache>>

\* a method of the curve held in object 1; no method assigns to the curve,
\* and the caches are those of the module
Bezier4PMethod(op, arg, r, cache_) ==
    /\ call' = Call(op, 1, arg, FALSE, r, heap)
    /\ calls' = calls + 1
    /\ cache' = cache_
    /\ UNCHANGED <<heap, proxy, copy_, wire, caller, proxy2>>

Point(t) ==
    /\ heap[1].k = "bezier" /\ calls < MaxCalls
    /\ \E r \in {Bezier4P_point(heap[1].v, t, cache)} :
           Bezier4PMethod("point", Num(t), r, r.cache)

Tangent(t) ==
    /\ heap[1].k = "bezier" /\ calls < MaxCalls
    /\ \E r \in {Bezier4P_tangent(heap[1].v, t, cache)} :
           Bezier4PMethod("tangent", Num(t), r, r.cache)

Approximate(segments) ==
    /\ heap[1].k = "bezier" /\ calls < MaxCalls
    /\ \E r \in {approximate(heap[1].v, segments, cache)} :
           Bezier4PMethod("approximate", Num(segments), R(r.err, List(r.val)),
                          r.cache)

Flattening(distance, segments) ==
    /\ heap[1].k = "bezier" /\ calls < MaxCalls
    /\ \E r \in {flattening(heap[1].v, distance, segments, cache)} :
           Bezier4PMethod("flattening", List(<<Num(distance), Num(segments)>>),
                          R(r.err, List(r.val)), r.cache)

\* the longest list of points given to linear_ring
MaxRingLen == 4
\* the points of the lists given to linear_ring: three corners of a triangle
RingPoints == {Vector3(0, 0, 0), Vector3(3, 0, 0), Vector3(0, 3, 0)}
\* open and closed lists, both windings, runs of equal points, and lists of
\* fewer than three points
PointLists == SeqsFrom(RingPoints, 0, MaxRingLen)

\* _line_string_or_polygon_mapping(points, force_line_string) for the
\* flattened vertices of an entity
CallLineStringOrPolygon ==
    /\ call.op = "start"
    /\ \E points \in PointLists, force_line_string \in BOOLEAN :
       \E r \in {_line_string_or_polygon_mapping(List(points),
                                                 force_line_string)} :
           call' = Call("_line_string_or_polygon_mapping", 0, List(points),
                        force_line_string, r, heap)
    /\ UNCHANGED <<heap, proxy, copy_, wire, calls, caller, proxy2, cache>>

CallLinearRing ==
    /\ call.op = "start"
    /\ \E points \in PointLists, ccw \in BOOLEAN :
       \E r \in {linear_ring(List(points), ccw)} :
           call' = Call("linear_ring", 0, List(<<List(points), Bool(ccw)>>),
                        FALSE, r, heap)
    /\ UNCHANGED <<heap, proxy, copy_, wire, calls, caller, proxy2, cache>>

\* _transform(func) on a tree the root property of a proxy holds: ret is the
\* tree as the call leaves it
CallTransform ==
    /\ call.op = "start"
    /\ \E t \in InternalTrees, crs \in Matrices,
          method \in {"transform", "ucs_vertex_from_wcs"} :
       \E r \in {_transform(t, [method |-> method, crs |-> crs])} :
           call' = Call("_transform", 0,
                        List(<<t, V("matrix", crs), Str(method)>>), FALSE,
                        r, heap)
    /\ UNCHANGED <<heap, proxy, copy_, wire, calls, caller, proxy2, cache>>

Next ==
    \/ \E x \in WireInputs : GeoProxy(x)
    \/ \E e \in Entities \cup EntityLists, f \in BOOLEAN : from_dxf_entities(e, f)
    \/ GeoProxyOfSameMapping
    \/ Copy
    \/ \E t \in OBJECTS, crs \in Matrices : CrsToWcs(t, crs)
    \/ \E t \in OBJECTS, crs \in Matrices : WcsToCrs(t, crs)
    \/ \E t \in OBJECTS : GeoInterface(t)
    \/ \E t \in OBJECTS : Iterate(t)
    \/ CallRebuild
    \/ CallParsePolygon
    \/ CallMapping
    \/ CallCollection
    \/ CallJoin
    \/ \E t \in OBJECTS, polygon \in PolygonMethods : ToDxfEntities(t, polygon)
    \/ CallEntity
    \/ CallLinearRing
    \/ CallLineStringOrPolygon
    \/ CallTransform
    \/ \E defpoints \in DefPoints : Bezier4P(defpoints)
    \/ \E t \in Parameters : Point(t)
    \/ \E t \in Parameters : Tangent(t)
    \/ \E segments \in SegmentCounts : Approximate(segments)
    \/ \E distance \in Distances, segments \in 1..MaxSegments :
           Flattening(distance, segments)

Spec == Init /\ [][Next]_vars

\* ------------------------------------------------------------- the claims

RECURSIVE OmitHolesWrapper(_)
RECURSIVE ExpectedTransform(_, _)
RECURSIVE ExpectedLeaves(_)
RECURSIVE PolygonNodes(_)
RECURSIVE TransformedCoordinates(_, _)
RECURSIVE TwiceArea(_)

\* a position with a third component
Is3D(c) == c.k = "seq" /\ Len(c.v) = 3 /\ c.v[1].k = "num"

\* the valid mappings with positions in the plane
PlanarWire == {x \in ValidWire : ~Is3D(x.v[COORDINATES])}

\* the mapping x with the rings of every Polygon without holes as a flat list
OmitHolesWrapper(x) ==
    LET type_ == x.v[TYPE].v
        c == x.v[COORDINATES]
        Members(l) == List([i \in 1..Len(l.v) |-> OmitHolesWrapper(l.v[i])])
    IN  CASE type_ = FEATURE_COLLECTION ->
                SetItem(x, FEATURES, Members(x.v[FEATURES]))
          [] type_ = GEOMETRY_COLLECTION ->
                SetItem(x, GEOMETRIES, Members(x.v[GEOMETRIES]))
          [] type_ = FEATURE ->
                IF x.v[GEOMETRY] = None_ THEN x
                ELSE SetItem(x, GEOMETRY, OmitHolesWrapper(x.v[GEOMETRY]))
          [] type_ = POLYGON ->
                IF ~IsFlatRing(c) /\ Len(c.v) = 1
                THEN SetItem(x, COORDINATES, c.v[1]) ELSE x
          [] OTHER -> x

\* C1: for every valid wire-form mapping x, GeoProxy(x) is constructed and its
\* __geo_interface__ is a mapping equal to x, but for a Polygon without holes,
\* which is emitted as a flat ring list
C1_RoundTrip ==
    /\ (call.op = "GeoProxy" /\ call.arg \in PlanarWire) => call.err = "none"
    /\ (call.op = "__geo_interface__" /\ calls = 1 /\ wire \in PlanarWire) =>
           /\ call.err = "none"
           /\ call.ret = OmitHolesWrapper(wire)

\* twice the signed area of a ring of Vectors: positive for a counter-clockwise
\* ring, negative for a clockwise one
TwiceArea(pts) ==
    IF Len(pts) < 2 THEN 0
    ELSE pts[1].v[1] * pts[2].v[2] - pts[2].v[1] * pts[1].v[2]
         + TwiceArea(Tail(pts))

IsClosedRing(ring) ==
    ring.k = "seq" /\ Len(ring.v) >= 4 /\ ring.v[1] = ring.v[Len(ring.v)]
IsExteriorRing(ring) == IsClosedRing(ring) /\ TwiceArea(ring.v) > 0
IsHoleRing(ring) == IsClosedRing(ring) /\ TwiceArea(ring.v) < 0

\* the pair (exterior, holes) of a Polygon node
IsNormalisedPair(c) ==
    /\ c.k = "seq" /\ Len(c.v) = 2
    /\ IsExteriorRing(c.v[1])
    /\ \A i \in 1..Len(c.v[2].v) : IsHoleRing(c.v[2].v[i])

\* the coordinates of a Polygon mapping: a flat ring, or [exterior, hole, ...]
IsNormalisedRings(c) ==
    IF c.v[1].k = "vec" THEN IsExteriorRing(c)
    ELSE /\ IsExteriorRing(c.v[1])
         /\ \A i \in 2..Len(c.v) : IsHoleRing(c.v[i])

\* the Polygon nodes of a tree
PolygonNodes(t) ==
    IF t.k # "dict" THEN {}
    ELSE LET Of(l) == IF l.k = "seq"
                      THEN UNION {PolygonNodes(l.v[i]) : i \in 1..Len(l.v)}
                      ELSE {}
         IN  (IF t.v[TYPE] = Str(POLYGON) THEN {t} ELSE {})
             \cup Of(t.v[FEATURES]) \cup Of(t.v[GEOMETRIES])
             \cup PolygonNodes(t.v[GEOMETRY])

\* C2: every Polygon node, the ones in the tree of a proxy, the pair
\* _parse_polygon makes of wire-form rings and the Polygon mapping of an
\* entity, has a closed counter-clockwise exterior ring and closed clockwise
\* hole rings, whatever the winding and closedness of the source rings
C2_PolygonsNormalised ==
    /\ \A o \in Targets : \A n \in PolygonNodes(heap[o]) :
           IsNormalisedPair(n.v[COORDINATES])
    /\ (call.op = "_parse_polygon" /\ call.err = "none") =>
           IsNormalisedPair(call.ret)
    /\ (call.op = "mapping" /\ call.err = "none"
            /\ call.ret.v[TYPE] = Str(POLYGON)) =>
           IsNormalisedRings(call.ret.v[COORDINATES])

\* the coordinates c, each Vector replaced by its point transform
TransformedCoordinates(c, crs) ==
    IF c.k = "vec" THEN Matrix44_transform(crs, c)
    ELSE List([i \in 1..Len(c.v) |-> TransformedCoordinates(c.v[i], crs)])

\* the tree t with the coordinates of every geometry leaf transformed
ExpectedTransform(t, crs) ==
    LET type_ == t.v[TYPE].v
        Members(l) == List([i \in 1..Len(l.v) |-> ExpectedTransform(l.v[i], crs)])
    IN  CASE type_ = FEATURE_COLLECTION ->
                SetItem(t, FEATURES, Members(t.v[FEATURES]))
          [] type_ = GEOMETRY_COLLECTION ->
                SetItem(t, GEOMETRIES, Members(t.v[GEOMETRIES]))
          [] type_ = FEATURE ->
                IF t.v[GEOMETRY] = None_ THEN t
                ELSE SetItem(t, GEOMETRY, ExpectedTransform(t.v[GEOMETRY], crs))
          [] OTHER ->
                SetItem(t, COORDINATES,
                        TransformedCoordinates(t.v[COORDINATES], crs))

IsTransform(op) == op \in {"crs_to_wcs", "wcs_to_crs"}

\* C3: crs_to_wcs(M) and wcs_to_crs(M) on the tree of a valid mapping return
\* and leave the tree with every coordinate of every geometry leaf replaced by
\* its point transform under M, and with nothing else changed
C3_TransformEveryLeaf ==
    (IsTransform(call.op) /\ call.pre[call.target] \in InternalTrees) =>
        /\ call.err = "none"
        /\ heap[call.target] = ExpectedTransform(call.pre[call.target], call.arg.v)
        /\ \A o \in OBJECTS \ {call.target} : heap[o] = call.pre[o]

\* C4: the copy of a proxy holds a tree of its own, equal to the original's
\* when it is made; a transform of the original leaves the copy's tree as it
\* was, and a transform of the copy leaves the original's tree as it was
C4_CopyIsDeep ==
    copy_ # 0 =>
        /\ copy_ # proxy
        /\ call.op = "copy" =>
               heap[copy_] = heap[proxy] /\ heap[proxy] = call.pre[proxy]
        /\ IsTransform(call.op) =>
               \A o \in Targets \ {call.target} : heap[o] = call.pre[o]

\* a transform has changed the tree of the original, and the copy made before
\* it holds the tree the original had
C4_Witness ==
    /\ copy_ # 0
    /\ call.op = "crs_to_wcs" /\ call.target = proxy /\ call.err = "none"
    /\ heap[proxy] # call.pre[proxy]
    /\ heap[copy_] = call.pre[proxy]

\* the geometry leaves of a tree, depth first and left to right
ExpectedLeaves(t) ==
    LET type_ == t.v[TYPE].v
        Concat(l) == LET RECURSIVE cat(_)
                         cat(i) == IF i > Len(l.v) THEN <<>>
                                   ELSE ExpectedLeaves(l.v[i]) \o cat(i + 1)
                     IN  cat(1)
    IN  CASE type_ = FEATURE_COLLECTION -> Concat(t.v[FEATURES])
          [] type_ = GEOMETRY_COLLECTION -> Concat(t.v[GEOMETRIES])
          [] type_ = FEATURE ->
                IF t.v[GEOMETRY] = None_ THEN <<>>
                ELSE ExpectedLeaves(t.v[GEOMETRY])
          [] OTHER -> <<t>>

\* C5: iterating the proxy of a valid mapping ends without an exception, has
\* yielded the geometry leaves of the tree, each once, depth first and left
\* to right (the null geometry of a Feature aside), and leaves the tree as it
\* was, so that a second iteration yields the same
C5_LeafIteration ==
    (call.op = "__iter__" /\ call.pre[call.target] \in InternalTrees) =>
        /\ call.err = "none"
        /\ SelectSeq(call.ret.v, LAMBDA n : n # None_)
               = ExpectedLeaves(call.pre[call.target])
        /\ heap = call.pre

\* C6: parse of a well-formed mapping with one of the six geometry tags
\* returns the mapping with its coordinates converted to Vectors in the same
\* nesting, those of a Polygon and of each member of a MultiPolygon as the
\* pair (exterior, holes)
C6_ParseGeometry ==
    (call.op = "GeoProxy" /\ call.arg \in WireLeaves) =>
        /\ call.err = "none"
        /\ call.ret = Internal(call.arg)
        /\ proxy # 0 /\ heap[proxy] = Internal(call.arg)

\* the key parse requires of a mapping of the given type
RequiredKey(type_) ==
    CASE type_ = FEATURE_COLLECTION -> FEATURES
      [] type_ = GEOMETRY_COLLECTION -> GEOMETRIES
      [] type_ = FEATURE -> GEOMETRY
      [] OTHER -> COORDINATES

\* C7: parse raises ValueError (MissingKey) for a mapping without the key
\* "type" and for one of the nine types without the key its type requires,
\* and TypeError (UnknownType) for a type that is none of the nine
C7_ErrorClasses ==
    call.op = "GeoProxy" =>
        LET x == call.arg
        IN  /\ ~HasKey(x, TYPE) => call.err = "ValueError"
            /\ (HasKey(x, TYPE) /\ x.v[TYPE].v \in Tags
                    /\ ~HasKey(x, RequiredKey(x.v[TYPE].v))) =>
                   call.err = "ValueError"
            /\ (HasKey(x, TYPE) /\ x.v[TYPE].v \notin Tags) =>
                   call.err = "TypeError"

Pairs(vs) == List([i \in 1..Len(vs.v) |-> P(vs.v[i].v[1], vs.v[i].v[2])])

\* the wire-form coordinates of a geometry leaf of the given type
ExpectedCoordinates(type_, c) ==
    CASE type_ = POINT -> P(c.v[1], c.v[2])
      [] type_ \in {LINE_STRING, MULTI_POINT} -> Pairs(c)
      [] type_ = MULTI_LINE_STRING ->
            List([i \in 1..Len(c.v) |-> Pairs(c.v[i])])
      [] type_ = POLYGON ->
            IF c.v[2].v = <<>> THEN Pairs(c.v[1])
            ELSE List(<<Pairs(c.v[1])>>
                      \o [i \in 1..Len(c.v[2].v) |-> Pairs(c.v[2].v[i])])

\* C9: _rebuild of a Point, LineString, MultiPoint, MultiLineString or Polygon
\* leaf returns the leaf with its coordinates as (x, y) pairs in the nesting
\* of the wire form, those of a Polygon as a flat list without holes and as
\* [exterior, hole, ...] with holes; the coordinates of a Polygon or
\* MultiPolygon are never returned as the internal pair
C9_RebuildWireForm ==
    (call.op = "_rebuild" /\ call.arg.v[TYPE].v \in GeometryTags) =>
        LET type_ == call.arg.v[TYPE].v
            c == call.arg.v[COORDINATES]
        IN  /\ call.err = "none"
            /\ type_ # MULTI_POLYGON =>
                   call.ret = SetItem(call.arg, COORDINATES,
                                      ExpectedCoordinates(type_, c))
            /\ type_ \in {POLYGON, MULTI_POLYGON} =>
                   call.ret.v[COORDINATES] # c

\* C10: collection(entities) maps every entity; when an entity's mapping
\* raises, collection raises the same; when the mappings have one type T, it
\* returns the mapping of type "Multi" + T with the entities' coordinates in
\* the order of the entities, two LINE entities giving the MultiLineString of
\* their two endpoint lists; when the mappings have several types, it returns
\* the GeometryCollection of the mappings in the order of the entities
C10_Collection ==
    call.op = "collection" =>
        LET es == call.arg.v
            ms == [i \in 1..Len(es) |-> mapping(es[i], call.force)]
            bad == {i \in 1..Len(es) : ~IsOk(ms[i])}
            types == {ms[i].val.v[TYPE].v : i \in 1..Len(es)}
        IN  IF bad # {} THEN call.err = ms[Min(bad)].err
            ELSE /\ call.err = "none"
                 /\ \A T \in types :
                        types = {T} =>
                            call.ret = Geometry("Multi" \o T,
                                List([i \in 1..Len(es) |->
                                         ms[i].val.v[COORDINATES]]))
                 /\ Cardinality(types) > 1 =>
                        call.ret = Collection(GEOMETRY_COLLECTION, GEOMETRIES,
                                       [i \in 1..Len(es) |-> ms[i].val])
                 /\ call.arg = List(<<Entity("LINE", Vs(<<<<0, 0>>, <<1, 0>>>>), ""),
                                      Entity("LINE", Vs(<<<<0, 0>>, <<0, 1>>>>), "")>>) =>
                        call.ret = Geometry(MULTI_LINE_STRING,
                                       List(<<Vs(<<<<0, 0>>, <<1, 0>>>>),
                                              Vs(<<<<0, 0>>, <<0, 1>>>>)>>))

\* the two LINE entities have been joined to a MultiLineString
C10_Witness ==
    /\ call.op = "collection" /\ call.err = "none"
    /\ call.arg = List(<<Entity("LINE", Vs(<<<<0, 0>>, <<1, 0>>>>), ""),
                         Entity("LINE", Vs(<<<<0, 0>>, <<0, 1>>>>), "")>>)
    /\ call.ret.v[TYPE] = Str(MULTI_LINE_STRING)

C12_MappingDispatch ==
    call.op = "mapping" =>
        LET e == call.arg.v
            unsupported == \/ e.dxftype \notin SUPPORTED_DXF_TYPES
                           \/ e.dxftype = "POLYLINE" /\ e.mode \notin {"2d", "3d"}
        IN  /\ e.dxftype = "POINT" =>
                   /\ call.err = "none"
                   /\ call.ret = Geometry(POINT, e.pts.v[1])
            /\ e.dxftype = "LINE" =>
                   /\ call.err = "none"
                   /\ call.ret = Geometry(LINE_STRING, List(<<e.pts.v[1], e.pts.v[2]>>))
            /\ call.err = "TypeError" <=> unsupported

\* a polyface POLYLINE has been refused
C12_Witness ==
    /\ call.op = "mapping" /\ call.err = "TypeError"
    /\ call.arg.v.dxftype = "POLYLINE" /\ call.arg.v.mode = "face"

RECURSIVE HasPolygon(_)
\* the mapping or tree t has a Polygon or MultiPolygon node
HasPolygon(t) ==
    IF t.k # "dict" THEN FALSE
    ELSE LET In(l) == l.k = "seq" /\ \E i \in 1..Len(l.v) : HasPolygon(l.v[i])
         IN  \/ t.v[TYPE] \in {Str(POLYGON), Str(MULTI_POLYGON)}
             \/ In(t.v[FEATURES]) \/ In(t.v[GEOMETRIES])
             \/ HasPolygon(t.v[GEOMETRY])

\* every entity of the argument of from_dxf_entities has a mapping as
\* LineString or Point when line strings are forced
MappableForced(arg) ==
    IF arg.k = "entity" THEN IsOk(mapping(arg, TRUE))
    ELSE /\ arg.v # <<>>
         /\ \A i \in 1..Len(arg.v) : IsOk(mapping(arg.v[i], TRUE))

\* the mapping from_dxf_entities has made of its entities
C13_MappingHasNoPolygon ==
    (call.op = "from_dxf_entities" /\ call.force /\ wire # None_) =>
        ~HasPolygon(wire)

\* C13: from_dxf_entities with force_line_string=True, of one entity or of
\* several, returns a proxy, and neither the mapping made of the entities nor
\* the tree of the proxy has a Polygon or MultiPolygon node
C13_ForceLineString ==
    (call.op = "from_dxf_entities" /\ call.force /\ MappableForced(call.arg)) =>
        /\ C13_MappingHasNoPolygon
        /\ call.err = "none"
        /\ proxy # 0 /\ ~HasPolygon(heap[proxy])

\* the entities of a Polygon (exterior, holes) for the method polygon as the
\* documentation of to_dxf_entities has them: 1 the hatch, 2 the polylines
\* of the exterior and of the holes in their order, 3 the hatch and then the
\* polylines
ExpectedPolygonEntities(pair, polygon) ==
    (IF polygon \in {1, 3} THEN <<hatch_(pair.v[1], pair.v[2]).val>> ELSE <<>>)
    \o (IF polygon \in {2, 3}
        THEN <<lwpolyline(pair.v[1]).val>>
             \o [i \in 1..Len(pair.v[2].v) |-> lwpolyline(pair.v[2].v[i]).val]
        ELSE <<>>)

\* the number of the entities of a type in a sequence of entities
CountType(es, dxftype) ==
    Cardinality({i \in 1..Len(es) : es[i].v.dxftype = dxftype})

RECURSIVE SumOver(_, _)
\* the sum of f over 1..n
SumOver(f, n) == IF n = 0 THEN 0 ELSE f[n] + SumOver(f, n - 1)

\* C14: the entities made of a geometry leaf are one POINT for a Point, one
\* LWPOLYLINE for a LineString, one POINT or LWPOLYLINE for each member of a
\* MultiPoint or MultiLineString, and for a Polygon with h holes one HATCH
\* and no LWPOLYLINE for polygon=1, 1+h LWPOLYLINE (exterior, then the holes)
\* and no HATCH for polygon=2, the HATCH and then the 1+h LWPOLYLINE for
\* polygon=3; a MultiPolygon gives these entities for each of its members
C14_EntitiesOfLeaf ==
    call.op = "entity" =>
        LET t == call.arg.v[1]
            polygon == call.arg.v[2].v
            type_ == t.v[TYPE].v
            c == t.v[COORDINATES]
            es == call.ret.v
        IN  /\ call.err = "none"
            /\ type_ = POINT => es = <<point(c)>>
            /\ type_ = LINE_STRING => es = <<lwpolyline(c).val>>
            /\ type_ = MULTI_POINT =>
                   es = [i \in 1..Len(c.v) |-> point(c.v[i])]
            /\ type_ = MULTI_LINE_STRING =>
                   es = [i \in 1..Len(c.v) |-> lwpolyline(c.v[i]).val]
            /\ type_ = POLYGON => es = ExpectedPolygonEntities(c, polygon)
            /\ type_ = MULTI_POLYGON =>
                   /\ CountType(es, "HATCH") =
                          IF polygon \in {1, 3} THEN Len(c.v) ELSE 0
                   /\ CountType(es, "LWPOLYLINE") =
                          IF polygon \in {2, 3}
                          THEN SumOver([i \in 1..Len(c.v) |->
                                           1 + Len(c.v[i].v[2].v)], Len(c.v))
                          ELSE 0
                   /\ Len(es) = CountType(es, "HATCH")
                                + CountType(es, "LWPOLYLINE")

\* C15: among the entities one to_dxf_entities(polygon=3), or its expansion
\* of one leaf, yields, no HATCH comes after an LWPOLYLINE
C15_HatchesFirst ==
    \/ call.op = "entity" /\ call.arg.v[2].v = 3
    \/ call.op = "to_dxf_entities" /\ call.arg.v = 3
    => \A i, j \in 1..Len(call.ret.v) :
           (i < j /\ call.ret.v[i].v.dxftype = "LWPOLYLINE") =>
               call.ret.v[j].v.dxftype # "HATCH"

\* the list linear_ring works on: the points, with the first point appended
\* when the list is open
ClosedList(points) ==
    IF points[1] = points[Len(points)] THEN points
    ELSE Append(points, points[1])

\* what linear_ring returns for a list of three or more points: a closed
\* ring made of the points in their order or in the reverse order, the first
\* point appended only to an open list
LinearRingIsClosedInput(points, ring) ==
    /\ ring.k = "seq"
    /\ ring.v[1] = ring.v[Len(ring.v)]
    /\ ring.v \in {ClosedList(points), Reverse(ClosedList(points))}

\* the area of the returned ring has the sign asked for
LinearRingHasWinding(ring, ccw) ==
    IF ccw THEN TwiceArea(ring.v) > 0 ELSE TwiceArea(ring.v) < 0

\* the order is reversed exactly when the winding of the input is not the
\* winding asked for
LinearRingReversesOnMismatch(points, ring, ccw) ==
    (ring.v = Reverse(ClosedList(points)))
        <=> ((TwiceArea(ClosedList(points)) > 0) # ccw)

\* C16 as stated: for every list of at least 3 points linear_ring returns a
\* closed ring of positive area for ccw=True and of negative area for
\* ccw=False, reversed exactly on a mismatch of the winding; fewer than 3
\* points raise ValueError
C16_LinearRingAnyInput ==
    call.op = "linear_ring" =>
        LET points == call.arg.v[1].v
            ccw == call.arg.v[2].v
        IN  IF Len(points) < 3 THEN call.err = "ValueError"
            ELSE /\ call.err = "none"
                 /\ LinearRingIsClosedInput(points, call.ret)
                 /\ LinearRingHasWinding(call.ret, ccw)
                 /\ LinearRingReversesOnMismatch(points, call.ret, ccw)

\* C16, amended: fewer than 3 points raise ValueError; a list of at least 3
\* points gives the closed ring of these points (the first point appended
\* only to an open list), in their order or reversed; when the ring encloses
\* a non-zero area, the area of the result is positive for ccw=True and
\* negative for ccw=False and the order is reversed exactly when the winding
\* of the input is not the one asked for; a ring of area zero is returned
\* with area zero
C16_LinearRing ==
    call.op = "linear_ring" =>
        LET points == call.arg.v[1].v
            ccw == call.arg.v[2].v
        IN  IF Len(points) < 3 THEN call.err = "ValueError"
            ELSE /\ call.err = "none"
                 /\ LinearRingIsClosedInput(points, call.ret)
                 /\ IF TwiceArea(ClosedList(points)) # 0
                    THEN /\ LinearRingHasWinding(call.ret, ccw)
                         /\ LinearRingReversesOnMismatch(points, call.ret, ccw)
                    ELSE TwiceArea(call.ret.v) = 0

\* an open clockwise triangle was closed and reversed into a
\* counter-clockwise ring
C16_Witness ==
    /\ call.op = "linear_ring"
    /\ call.err = "none"
    /\ call.arg.v[2].v = TRUE
    /\ Len(call.arg.v[1].v) = 3
    /\ TwiceArea(ClosedList(call.arg.v[1].v)) < 0
    /\ Len(call.ret.v) = 4
    /\ call.ret.v = Reverse(ClosedList(call.arg.v[1].v))
    /\ TwiceArea(call.ret.v) > 0

\* C17: every flattening(distance, segments) with distance > 0 and
\* segments >= 1 ends without an error, and its vertices start with the first
\* control point and stand for strictly increasing curve parameters
C17_FlatteningTerminates ==
    call.op = "flattening" =>
        /\ call.err = "none"
        /\ call.ret.v[1].p = call.pre[1].v[1]
        /\ \A i \in 1..(Len(call.ret.v) - 1) :
               call.ret.v[i].t < call.ret.v[i + 1].t

Abs(n) == IF n < 0 THEN -n ELSE n

\* the point q is farther than d from the line through a and b, seen in the
\* xy plane: |(b - a) x (q - a)| > d * |b - a|, with |b - a| taken as large
\* as |bx - ax| + |by - ay|
FartherThan(a, b, q, d) ==
    LET X(v) == fval(v.v[1])
        Y(v) == fval(v.v[2])
    IN  Abs((X(b) - X(a)) * (Y(q) - Y(a)) - (Y(b) - Y(a)) * (X(q) - X(a)))
        > d * (Abs(X(b) - X(a)) + Abs(Y(b) - Y(a)))

\* C18 as stated: between two consecutive vertices of flattening(distance,
\* segments) no point of the curve is farther than distance from the chord
C18_ChordNearCurve ==
    call.op = "flattening" =>
        \A i \in 1..(Len(call.ret.v) - 1) :
            \A t \in (call.ret.v[i].t + 1)..(call.ret.v[i + 1].t - 1) :
                ~FartherThan(call.ret.v[i].p, call.ret.v[i + 1].p,
                             _get_curve_point(call.pre[1].v, t, NoCache).p,
                             call.arg.v[1].v)

\* C18, amended: for two consecutive vertices of flattening(distance,
\* segments), the centre of the chord is nearer than distance to the curve
\* point at the middle of the chord's parameters
C18_ChordCentreNearCurve ==
    call.op = "flattening" =>
        \A i \in 1..(Len(call.ret.v) - 1) :
            distance_squared(
                lerp(call.ret.v[i].p, call.ret.v[i + 1].p),
                _get_curve_point(call.pre[1].v,
                                 fmul(call.ret.v[i].t + call.ret.v[i + 1].t,
                                      ONE \div 2), NoCache).p)
            < call.arg.v[1].v * call.arg.v[1].v

\* a flattening that ended after dividing a segment: more vertices than one
\* per segment asked for
C18_Witness ==
    /\ call.op = "flattening"
    /\ call.err = "none"
    /\ Len(call.ret.v) > call.arg.v[2].v + 1
    /\ call.ret.v[Len(call.ret.v)].p = call.pre[1].v[4]

\* C19: approximate(n) raises ValueError for n < 1; for n >= 1 it yields
\* n + 1 vertices, the first the first control point, the last the fourth
\* control point, and the k-th between them the curve point at k / n
C19_Approximate ==
    call.op = "approximate" =>
        LET n == call.arg.v
            control_points == call.pre[1].v
        IN  IF n < 1 THEN call.err = "ValueError"
            ELSE /\ call.err = "none"
                 /\ Len(call.ret.v) = n + 1
                 /\ call.ret.v[1] = control_points[1]
                 /\ call.ret.v[n + 1] = control_points[4]
                 /\ \A k \in 1..(n - 1) :
                        call.ret.v[k + 1]
                            = _get_curve_point(control_points,
                                               RoundDiv(k * ONE, n), NoCache).p

\* approximate(3) of the arch gave four vertices, the two in the middle off
\* the control points
C19_Witness ==
    /\ call.op = "approximate"
    /\ call.arg.v = 3
    /\ call.err = "none"
    /\ Len(call.ret.v) = 4
    /\ call.ret.v[2] \notin {call.pre[1].v[i] : i \in 1..4}
    /\ call.ret.v[2] # call.ret.v[3]

\* C20: point(t) and tangent(t) raise ValueError for t < 0 and for t > 1,
\* return a vector for 0 <= t <= 1, and leave the control points as they were
C20_ParameterRange ==
    call.op \in {"point", "tangent"} =>
        /\ (fval(call.arg.v) < 0 \/ fval(call.arg.v) > ONE) =>
               call.err = "ValueError"
        /\ (0 <= fval(call.arg.v) /\ fval(call.arg.v) <= ONE) =>
               /\ call.err = "none"
               /\ call.ret.k = call.pre[1].v[1].k
        /\ heap[1] = call.pre[1]
        /\ heap[1].k = "bezier"

\* point(0), the second or a later call on the curve, returned the first
\* control point
C20_Witness ==
    /\ call.op = "point"
    /\ call.arg.v = 0
    /\ call.err = "none"
    /\ call.ret = heap[1].v[1]
    /\ calls >= 2

\* every Polygon node of the tree t is normalised
PolygonsNormalised(t) ==
    \A n \in PolygonNodes(t) : IsNormalisedPair(n.v[COORDINATES])

\* C21: a transform (crs_to_wcs, wcs_to_crs, with any matrix, a mirroring one
\* included) of a tree whose Polygon nodes have a closed counter-clockwise
\* exterior ring and closed clockwise hole rings leaves every Polygon node
\* with such rings: a transform never alters ring orientation
C21_OrientationKept ==
    /\ (IsTransform(call.op) /\ PolygonsNormalised(call.pre[call.target])) =>
           PolygonsNormalised(heap[call.target])
    /\ (call.op = "_transform" /\ PolygonsNormalised(call.arg.v[1])) =>
           PolygonsNormalised(call.ret)

\* C22: the tree of a proxy shares no object with the caller's mapping or with
\* another proxy's tree: constructing a proxy leaves the caller's mapping as it
\* was, two proxies made of the same mapping hold trees of their own, and a
\* transform of one proxy changes neither the other proxy's tree nor the
\* caller's mapping
C22_NoSharing ==
    /\ (proxy # 0 /\ caller # 0) => proxy # caller
    /\ proxy2 # 0 => proxy2 # proxy
    /\ (call.op = "GeoProxy" /\ call.err = "none") =>
           heap[caller] = call.arg
    /\ IsTransform(call.op) =>
           /\ caller # 0 => heap[caller] = call.pre[caller]
           /\ (proxy2 # 0 /\ call.target # proxy2) =>
                  heap[proxy2] = call.pre[proxy2]

\* a mapping with one of the nine tags and the key its tag requires
IsTaggedMapping(t) ==
    /\ t.k = "dict"
    /\ t.v[TYPE].k = "str"
    /\ t.v[TYPE].v \in Tags
    /\ HasKey(t, RequiredKey(t.v[TYPE].v))

\* C23: whatever mapping, collection or GeoProxy.from_dxf_entities returns
\* when it does not fail is a valid tree: its tag is one of the nine tags and
\* it has the key the tag requires, for every input, the empty list of
\* entities included
C23_ReturnedTreeIsValid ==
    (call.op \in {"mapping", "collection", "from_dxf_entities"}
         /\ call.err = "none") => IsTaggedMapping(call.ret)

\* the exterior ring of the wire-form coordinates c of a Polygon: c itself
\* when it is a list of points, its first member when it is a list of rings
WireExterior(c) ==
    IF c.v = <<>> THEN c
    ELSE IF c.v[1].v = <<>> \/ c.v[1].v[1].k = "seq" THEN c.v[1]
    ELSE c

\* C24: parsing Polygon coordinates whose exterior is the empty list or one
\* point raises an error, and no (exterior, holes) pair with an exterior of
\* fewer than two points is produced
C24_DegeneratePolygon ==
    call.op = "_parse_polygon" =>
        /\ Len(WireExterior(call.arg).v) <= 1 => call.err # "none"
        /\ call.err = "none" => Len(call.ret.v[1].v) >= 2

\* the LineString mapping that holds the list points itself
IsLineStringOf(m, points) ==
    m.v[TYPE] = Str(LINE_STRING) /\ m.v[COORDINATES] = points

\* the classification of the vertex list of the last call, the exterior ring
\* of a Polygon result being judged by IsRing
Classification(IsRing(_, _)) ==
    call.op = "_line_string_or_polygon_mapping" =>
        LET points == call.arg
            len_ == Len(points.v)
        IN  IF len_ < 2 THEN call.err = "ValueError"
            ELSE /\ call.err = "none"
                 /\ IF len_ = 2 \/ call.force
                         \/ points.v[1] # points.v[len_]
                    THEN IsLineStringOf(call.ret, points)
                    ELSE /\ call.ret.v[TYPE] = Str(POLYGON)
                         /\ IsRing(call.ret.v[COORDINATES], points)

\* the closed counter-clockwise ring
NormalisedRing(ring, points) == IsExteriorRing(ring)

\* the closed list points, in its order or reversed, counter-clockwise when it
\* encloses an area
NormalisedRingUnlessFlat(ring, points) ==
    /\ ring.v \in {points.v, Reverse(points.v)}
    /\ ring.v[1] = ring.v[Len(ring.v)]
    /\ TwiceArea(points.v) # 0 => TwiceArea(ring.v) > 0

IsHatchMapping == call.op = "mapping" /\ call.arg.v.dxftype = "HATCH"
HatchPaths == call.arg.v.pts.v
HatchStyle == call.arg.v.mode

\* the path used as external: the first one flagged external, else the first
ExpectedExternal ==
    LET flagged == {i \in 1..Len(HatchPaths) :
                       "external" \in HatchPaths[i].v.flags}
    IN  IF flagged = {} THEN 1 ELSE Min(flagged)

\* the paths that become holes
ExpectedHoles ==
    LET others == (1..Len(HatchPaths)) \ {ExpectedExternal}
        outermost == {i \in others : "outermost" \in HatchPaths[i].v.flags}
        default == {i \in others :
                       HatchPaths[i].v.flags \cap {"external", "outermost"} = {}}
    IN  IF HatchStyle = "nested" \/ (HatchStyle = "outermost" /\ outermost = {})
        THEN outermost \cup default ELSE outermost

\* the points of a list of Vectors, and of a boundary path
PointSet(l) == {l.v[j] : j \in 1..Len(l.v)}
PathPoints(i) == PointSet(HatchPaths[i].v.pts)

\* the rings of a mapping: the list itself of a LineString, the exterior and
\* the holes of a Polygon, the lines of a MultiLineString
Rings(m) ==
    LET c == m.v[COORDINATES]
    IN  IF m.v[TYPE] = Str(LINE_STRING) \/ c.v[1].k = "vec" THEN <<c>> ELSE c.v

\* C26: mapping a hatch without boundary paths fails; mapping a hatch with at
\* least one path does not fail, none flagged external included: the external
\* path of the result is the first path flagged external, or else the first
C26_HatchExternalPath ==
    IsHatchMapping =>
        IF Len(HatchPaths) = 0 THEN call.err # "none"
        ELSE /\ call.err = "none"
             /\ PointSet(Rings(call.ret)[1]) = PathPoints(ExpectedExternal)

\* C27: for a hatch of one boundary path, or of the style "ignore", the
\* result is made of the external path alone, closed, and classified: a
\* LineString when line output is forced, else a single Polygon without holes
\* (so for one external path of 4 points and the style "outermost")
C27_HatchExternalAlone ==
    (IsHatchMapping /\ Len(HatchPaths) >= 1
         /\ (Len(HatchPaths) = 1 \/ HatchStyle = "ignore")) =>
        /\ call.err = "none"
        /\ call.ret.v[TYPE] =
               IF call.force THEN Str(LINE_STRING) ELSE Str(POLYGON)
        /\ Len(Rings(call.ret)) = 1
        /\ IsClosedRing(Rings(call.ret)[1])
        /\ PointSet(Rings(call.ret)[1]) = PathPoints(ExpectedExternal)
        /\ ~call.force => IsExteriorRing(Rings(call.ret)[1])

\* C28: for a hatch of more than one boundary path, a style other than
\* "ignore" and line output not forced, the result is one Polygon: its
\* exterior is the external path, its holes are the other paths flagged
\* outermost, and the other default paths too under the style "nested" or
\* under "outermost" without an outermost hole; the external path is no hole
C28_HatchHoles ==
    (IsHatchMapping /\ Len(HatchPaths) > 1 /\ HatchStyle # "ignore"
         /\ ~call.force) =>
        /\ call.err = "none"
        /\ call.ret.v[TYPE] = Str(POLYGON)
        /\ LET rings == Rings(call.ret)
           IN  /\ PointSet(rings[1]) = PathPoints(ExpectedExternal)
               /\ Len(rings) = 1 + Cardinality(ExpectedHoles)
               /\ {PointSet(rings[i]) : i \in 2..Len(rings)}
                      = {PathPoints(i) : i \in ExpectedHoles}

\* a tree with a Feature of null geometry and no geometry leaf: the Feature,
\* alone or as the members of a FeatureCollection
RECURSIVE IsUnlocated(_)
IsUnlocated(t) ==
    /\ t.k = "dict"
    /\ \/ t.v[TYPE] = Str(FEATURE) /\ t.v[GEOMETRY] = None_
       \/ /\ t.v[TYPE] = Str(FEATURE_COLLECTION)
          /\ t.v[FEATURES].k = "seq"
          /\ \A i \in 1..Len(t.v[FEATURES].v) : IsUnlocated(t.v[FEATURES].v[i])

\* C30: on the tree of a proxy, which parse has accepted, __geo_interface__,
\* crs_to_wcs, wcs_to_crs and to_dxf_entities end without error; for a tree
\* of Features with null geometry the rebuilt mapping is the tree, a
\* transform leaves the tree as it was, and no entity is yielded
C30_AcceptedTreesAreProcessed ==
    (call.op \in {"__geo_interface__", "crs_to_wcs", "wcs_to_crs",
                  "to_dxf_entities"}) =>
        /\ call.err = "none"
        /\ IsUnlocated(call.pre[call.target]) =>
               /\ heap[call.target] = call.pre[call.target]
               /\ call.op = "__geo_interface__" =>
                      call.ret = call.pre[call.target]
               /\ call.op = "to_dxf_entities" => call.ret = List(<<>>)

\* C29: the caches of the Bernstein polynomials cannot be observed: whatever
\* calls came before, point, tangent, approximate and flattening return, or
\* raise, what they do without a cache
C29_MemoizationNotObservable ==
    LET control_points == call.pre[1].v
        Same(r, val) == call.err = r.err /\ call.ret = val
    IN  /\ call.op = "point" =>
               LET r == Bezier4P_point(control_points, call.arg.v, NoCache)
               IN  Same(r, r.val)
        /\ call.op = "tangent" =>
               LET r == Bezier4P_tangent(control_points, call.arg.v, NoCache)
               IN  Same(r, r.val)
        /\ call.op = "approximate" =>
               LET r == approximate(control_points, call.arg.v, NoCache)
               IN  Same(r, List(r.val))
        /\ call.op = "flattening" =>
               LET r == flattening(control_points, call.arg.v[1].v,
                                   call.arg.v[2].v, NoCache)
               IN  Same(r, List(r.val))

====
